---- MODULE Spec2Model ----
(***************************************************************************)
(* Verification model of ABSD_MCP: the security validator (validatePath,   *)
(* validateCommand), the SearchSessionManager and the terminal             *)
(* SessionManager with the interact_with_process polling loop.             *)
(*                                                                         *)
(* Strings are sequences of one-character strings, so that prefix tests,   *)
(* trimming, splitting and case folding are computed and not assumed.      *)
(***************************************************************************)
EXTENDS Integers, Sequences, FiniteSets, TLC

VARIABLES
    \* ---- SecurityValidator.validatePath ----
    allowedDirectories,   \* config.allowedDirectories (a sequence of path strings)
    requestedPath,        \* the argument of validatePath
    pathResult,           \* the value returned by validatePath, NoResult before the call
    \* ---- SecurityValidator.validateCommand ----
    blockedConfig,        \* config.blockedCommands (a sequence of strings)
    command,              \* the argument of validateCommand
    cmdResult,            \* the value returned by validateCommand, NoResult before the call
    \* ---- SearchSessionManager ----
    sessions,             \* this.sessions: the ids registered in the Map
    sess,                 \* the session object of every id issued (closures keep it alive)
    nextId,               \* ids issued so far by randomUUID, plus one
    ripgrepAvailable,     \* this.ripgrepAvailable: "null", "true" or "false"
    rgInstalled,          \* environment: whether 'rg --version' exits with 0
    probing,              \* startSearch calls suspended on their probe (their options)
    refused,              \* some startSearch call was refused at the session cap
    lastStart,            \* outcome of the startSearch that completed in the last step
    cleanupInterval,      \* this.cleanupInterval is set (the timer runs)
    page,                 \* value returned by the getResults call of the last step
    \* ---- terminal SessionManager and interact_with_process ----
    ptySessions,          \* SessionManager.sessions: the pids registered in the Map
    pty,                  \* the session object of every pid created (closures keep it alive)
    nextPid,              \* pids issued so far, plus one
    ptyCleanupInterval,   \* SessionManager.cleanupInterval is set (the timer runs)
    call,                 \* the interact_with_process call in progress or last returned
    ptyRet,               \* what the registry call of the last step returned
    \* ---- the tools read_process_output and start_process ----
    reads,                \* the read_process_output calls, by call number
    readOut,              \* what the reads returned so far, in the order they returned
    started,              \* the start_process call in progress or last returned
    \* ---- file tools and the call handler of the server ----
    parent,               \* the findExistingParent call in progress or returned
    edit,                 \* the edit_block call in progress or returned
    disk,                 \* the content of the files edit_block can name
    multi,                \* the read_multiple_files call in progress or returned
    callCounts,           \* UsageTracker.callCounts
    response              \* what the call handler returned in the last step

vars == <<allowedDirectories, requestedPath, pathResult,
          blockedConfig, command, cmdResult,
          sessions, sess, nextId, ripgrepAvailable, rgInstalled, probing, refused,
          lastStart, cleanupInterval, page,
          ptySessions, pty, nextPid, ptyCleanupInterval, call, ptyRet,
          reads, readOut, started,
          parent, edit, disk, multi, callCounts, response>>

fileVars == <<parent, edit, disk, multi, callCounts, response>>

toolVars == <<reads, readOut, started, fileVars>>

searchVars == <<sessions, sess, nextId, ripgrepAvailable, rgInstalled, probing,
                refused, lastStart, cleanupInterval, page>>

notTerm == <<allowedDirectories, requestedPath, pathResult,
            blockedConfig, command, cmdResult, searchVars, toolVars>>

pathVars == <<allowedDirectories, requestedPath, pathResult>>
cmdVars  == <<blockedConfig, command, cmdResult>>

termVars == <<ptySessions, pty, nextPid, ptyCleanupInterval, call, ptyRet>>

notSearch == <<pathVars, cmdVars, termVars, toolVars>>

NoResult == [valid |-> FALSE, resolvedPath |-> <<>>, error |-> "not called"]

(***************************************************************************)
(* Bounds of the model.                                                    *)
(***************************************************************************)
MaxDepth == 3        \* segments in a requested path
MaxCmdLen == 3       \* characters in a command string
MaxStarts == 1       \* sessions issued plus calls suspended, session-detail specification
MaxCapStarts == 6    \* sessions issued plus calls suspended, cap specification
MaxOffset == 2       \* |offset| of a getResults call
MaxLength == 2       \* length of a getResults call
MaxResults == 2      \* results held by the session getResults is applied to
MaxPtys == 1         \* terminal sessions created, interaction specification
MaxRegPtys == 2      \* terminal sessions created, registry specification
MaxLiveStarts == 2   \* sessions issued plus calls suspended, disposal specification
MaxBuffer == 2       \* chunks a terminal session's outputBuffer holds
MaxTimeoutSteps == 2 \* the longest interact timeout, in time steps
Granularity == 2     \* time steps in one polling interval
MaxReadCalls == 2    \* read_process_output calls in one run

(***************************************************************************)
(* Generic string helpers (node:path and String.prototype).                *)
(***************************************************************************)
RECURSIVE Concat(_)
Concat(ss) == IF ss = <<>> THEN <<>> ELSE Head(ss) \o Concat(Tail(ss))

\* String.prototype.startsWith
StartsWith(s, p) == Len(p) <= Len(s) /\ SubSeq(s, 1, Len(p)) = p

\* String.prototype.split on a set of one-character separators
RECURSIVE SplitOn(_, _, _)
SplitOn(s, seps, cur) ==
    IF s = <<>> THEN <<cur>>
    ELSE IF Head(s) \in seps THEN <<cur>> \o SplitOn(Tail(s), seps, <<>>)
    ELSE SplitOn(Tail(s), seps, Append(cur, Head(s)))

Split(s, seps) == SplitOn(s, seps, <<>>)

\* segments joined with a leading "/" each; the root is "/"
RECURSIVE JoinAbs(_)
JoinAbs(segs) ==
    IF segs = <<>> THEN <<>> ELSE <<"/">> \o Head(segs) \o JoinAbs(Tail(segs))

ToPath(segs) == IF segs = <<>> THEN <<"/">> ELSE JoinAbs(segs)

IsAbsolute(p) == p # <<>> /\ Head(p) = "/"

DotDot == <<".", ".">>
Dot == <<".">>

\* node:path normalizeString: drops "" and ".", lets ".." remove the segment
\* before it; above the root ".." is dropped, in a relative path it is kept.
RECURSIVE NormalizeSegs(_, _, _)
NormalizeSegs(segs, acc, isAbs) ==
    IF segs = <<>> THEN acc
    ELSE LET s == Head(segs) IN
         IF s = <<>> \/ s = Dot THEN NormalizeSegs(Tail(segs), acc, isAbs)
         ELSE IF s = DotDot
              THEN IF acc # <<>> /\ acc[Len(acc)] # DotDot
                   THEN NormalizeSegs(Tail(segs), SubSeq(acc, 1, Len(acc) - 1), isAbs)
                   ELSE IF isAbs THEN NormalizeSegs(Tail(segs), acc, isAbs)
                   ELSE NormalizeSegs(Tail(segs), Append(acc, s), isAbs)
         ELSE NormalizeSegs(Tail(segs), Append(acc, s), isAbs)

RECURSIVE JoinRel(_)
JoinRel(segs) ==
    IF segs = <<>> THEN <<>>
    ELSE IF Len(segs) = 1 THEN Head(segs)
    ELSE Head(segs) \o <<"/">> \o JoinRel(Tail(segs))

\* path.normalize(p)
normalize(p) ==
    LET isAbs == IsAbsolute(p)
        trailing == p # <<>> /\ p[Len(p)] = "/"
        segs == NormalizeSegs(Split(p, {"/"}), <<>>, isAbs)
        body == JoinRel(segs)
    IN  IF body = <<>>
        THEN (IF isAbs THEN <<"/">> ELSE IF trailing THEN <<".", "/">> ELSE <<".">>)
        ELSE (IF isAbs THEN <<"/">> ELSE <<>>) \o body
             \o (IF trailing THEN <<"/">> ELSE <<>>)

\* process.cwd() of the server
Cwd == <<"/", "o">>

\* path.resolve(p): absolute, normalized, without a trailing slash
resolve(p) ==
    LET full == IF IsAbsolute(p) THEN p ELSE Cwd \o <<"/">> \o p
    IN  ToPath(NormalizeSegs(Split(full, {"/"}), <<>>, TRUE))

\* the segments of an absolute normalized path
SegsOf(p) == NormalizeSegs(Split(p, {"/"}), <<>>, TRUE)

(***************************************************************************)
(* The filesystem the validator runs against (node:fs existsSync and       *)
(* realpathSync). It is the layout the validator's tests build: an allowed *)
(* directory, a sibling whose name starts with the allowed name, an        *)
(* outside directory, and symlinks crossing the boundary in both ways.     *)
(***************************************************************************)
A  == <<"a">>          \* the allowed directory
AB == <<"a", "b">>     \* a sibling whose name starts with the allowed name
O  == <<"o">>          \* a directory outside
F  == <<"f">>          \* an existing file
L  == <<"l">>          \* /a/l: a symlink to the outside directory /o
I  == <<"i">>          \* /o/i: a symlink from outside to the allowed directory
R  == <<"r">>          \* /r: a symlink to the allowed directory
D  == <<"d">>          \* /a/d: a symlink to /o/n, which does not exist
N  == <<"n">>          \* a name that exists nowhere

DirNode  == [kind |-> "dir",  target |-> <<>>]
FileNode == [kind |-> "file", target |-> <<>>]
LinkNode(t) == [kind |-> "link", target |-> t]

FS == (ToPath(<<A>>) :> DirNode)
   @@ (ToPath(<<A, F>>) :> FileNode)
   @@ (ToPath(<<A, L>>) :> LinkNode(ToPath(<<O>>)))
   @@ (ToPath(<<A, D>>) :> LinkNode(ToPath(<<O, N>>)))
   @@ (ToPath(<<AB>>) :> DirNode)
   @@ (ToPath(<<AB, F>>) :> FileNode)
   @@ (ToPath(<<O>>) :> DirNode)
   @@ (ToPath(<<O, F>>) :> FileNode)
   @@ (ToPath(<<O, I>>) :> LinkNode(ToPath(<<A>>)))
   @@ (ToPath(<<R>>) :> LinkNode(ToPath(<<A>>)))

\* Path lookup as the kernel does it: every component is looked up in the
\* real directory reached so far and a symlink is replaced by its target.
\* ok is FALSE on ENOENT and ENOTDIR.
RECURSIVE Walk(_, _)
Walk(segs, cur) ==
    IF segs = <<>> THEN [ok |-> TRUE, real |-> cur]
    ELSE LET cand == Append(cur, Head(segs))
             key == ToPath(cand)
         IN  IF key \notin DOMAIN FS THEN [ok |-> FALSE, real |-> cur]
             ELSE IF FS[key].kind = "link"
                  THEN LET t == Walk(SegsOf(FS[key].target), <<>>)
                       IN  IF t.ok THEN Walk(Tail(segs), t.real)
                           ELSE [ok |-> FALSE, real |-> cur]
             ELSE IF FS[key].kind = "file" /\ Tail(segs) # <<>>
                  THEN [ok |-> FALSE, real |-> cur]
             ELSE Walk(Tail(segs), cand)

\* fs.existsSync(p) for an absolute path p
existsSync(p) == Walk(SegsOf(p), <<>>).ok

\* fs.realpathSync(p) for an existing absolute path p
realpathSync(p) == ToPath(Walk(SegsOf(p), <<>>).real)

(***************************************************************************)
(* SecurityValidator: constructor and validatePath.                        *)
(***************************************************************************)
Range(f) == {f[x] : x \in DOMAIN f}

\* a constructor that never enables the unrestricted mode
hasUnrestrictedAccess_never(dirs) == FALSE

\* constructor: this.hasUnrestrictedAccess
hasUnrestrictedAccess(dirs) == Len(dirs) = 0

\* constructor: this.allowedPaths
allowedPaths(dirs) ==
    {LET resolved == resolve(dir)
     IN  IF existsSync(resolved) THEN realpathSync(resolved) ELSE resolved
     : dir \in Range(dirs)}

\* the test of one allowed path inside validatePath's some()
isAllowedBy(realPath, allowedPath) ==
    realPath = allowedPath \/ StartsWith(realPath, allowedPath \o <<"/">>)

validatePath(req, dirs) ==
    LET normalizedPath == normalize(req)
        absolutePath == resolve(normalizedPath)
        realPath == IF existsSync(absolutePath) THEN realpathSync(absolutePath)
                    ELSE absolutePath
        isAllowed == \E allowedPath \in allowedPaths(dirs) :
                        isAllowedBy(realPath, allowedPath)
    IN  IF hasUnrestrictedAccess(dirs)
        THEN [valid |-> TRUE, resolvedPath |-> realPath, error |-> ""]
        ELSE IF ~isAllowed
        THEN [valid |-> FALSE, resolvedPath |-> <<>>,
              error |-> "Path fuera de directorios permitidos"]
        ELSE [valid |-> TRUE, resolvedPath |-> realPath, error |-> ""]

\* ---- inputs of the path specification ----
SegNames == {A, AB, O, F, L, D, I, N, DotDot}

SegSeqs == UNION {[1..n -> SegNames] : n \in 0..MaxDepth}

RequestedPaths ==
    {ToPath(segs) : segs \in SegSeqs} \cup {JoinRel(segs) : segs \in SegSeqs}

AllowedConfigs ==
    { <<ToPath(<<A>>)>>,              \* the allowed directory
      <<ToPath(<<R>>)>>,              \* the allowed directory named through a symlink
      <<ToPath(<<>>)>>,               \* the filesystem root "/"
      <<ToPath(<<A>>), ToPath(<<N>>)>>,  \* with a root that does not exist yet
      <<>> }                          \* unrestricted mode

InitPath ==
    /\ allowedDirectories \in AllowedConfigs
    /\ requestedPath \in RequestedPaths
    /\ pathResult = NoResult

ValidatePath ==
    /\ pathResult = NoResult
    /\ pathResult' = validatePath(requestedPath, allowedDirectories)
    /\ UNCHANGED <<allowedDirectories, requestedPath>>

(***************************************************************************)
(* SecurityValidator: validateCommand.                                     *)
(***************************************************************************)
\* String.prototype.toLowerCase on the model's alphabet
LowerChar(c) ==
    IF c = "R" THEN "r" ELSE IF c = "M" THEN "m" ELSE IF c = "E" THEN "e" ELSE c

toLowerCase(s) == [k \in 1..Len(s) |-> LowerChar(s[k])]

\* String.prototype.trim
RECURSIVE TrimStart(_)
TrimStart(s) == IF s # <<>> /\ Head(s) = " " THEN TrimStart(Tail(s)) ELSE s

RECURSIVE TrimEnd(_)
TrimEnd(s) ==
    IF s # <<>> /\ s[Len(s)] = " " THEN TrimEnd(SubSeq(s, 1, Len(s) - 1)) ELSE s

trim(s) == TrimEnd(TrimStart(s))

\* constructor: this.blockedCommands = new Set(config.blockedCommands)
blockedCommands(cfg) == Range(cfg)

\* the split without the trim of every part
commandParts_untrimmed(normalizedCmd) == Split(normalizedCmd, {"|", ";", "&"})

\* command.split(/[|;&]/).map(p => p.trim())
commandParts(normalizedCmd) ==
    LET raw == Split(normalizedCmd, {"|", ";", "&"})
    IN  [k \in 1..Len(raw) |-> trim(raw[k])]

validateCommand(cmd, cfg) ==
    LET normalizedCmd == toLowerCase(trim(cmd))
        parts == commandParts(normalizedCmd)
    IN  IF normalizedCmd \in blockedCommands(cfg)
        THEN [valid |-> FALSE, resolvedPath |-> <<>>, error |-> "Comando bloqueado"]
        ELSE IF \E k \in 1..Len(parts) : parts[k] \in blockedCommands(cfg)
        THEN [valid |-> FALSE, resolvedPath |-> <<>>,
              error |-> "Comando bloqueado detectado en"]
        ELSE [valid |-> TRUE, resolvedPath |-> <<>>, error |-> ""]

\* ---- inputs of the command specification ----
CmdChars == {"r", "R", "m", " ", "|", ";", "&"}

Commands == UNION {[1..n -> CmdChars] : n \in 0..MaxCmdLen}

BlockedEntries == { <<"r", "m">>, <<"R", "m">>, <<"r">>, <<"r", "m", " ">> }

BlockedConfigs == {<<>>} \cup {<<b>> : b \in BlockedEntries}
                  \cup {<<<<"r", "m">>, <<"r">>>>}

InitCmd ==
    /\ blockedConfig \in BlockedConfigs
    /\ command \in Commands
    /\ cmdResult = NoResult

ValidateCommand ==
    /\ cmdResult = NoResult
    /\ cmdResult' = validateCommand(command, blockedConfig)
    /\ UNCHANGED <<blockedConfig, command>>

(***************************************************************************)
(* SearchSessionManager.                                                   *)
(*                                                                         *)
(* A session object stays reachable from the closures of executeSearch     *)
(* (stdout, exit and timeout handlers) after the registry has dropped its  *)
(* id, so sess keeps every object ever created and sessions holds the ids  *)
(* the Map contains.                                                       *)
(*                                                                         *)
(* Time: the code reads the clock only to stamp startTime and endTime and  *)
(* to compute the age Date.now() - startTime, which it compares with       *)
(* SESSION_TTL. A session therefore carries its age, in minutes, counted   *)
(* up to SESSION_TTL + 1 (past that every comparison answers the same),    *)
(* and endTime records whether the stamp is set.                           *)
(***************************************************************************)
MAX_SESSIONS == 5
SESSION_TTL == 5          \* 5 * 60 * 1000 ms, in minutes

Terminal == {"completed", "stopped", "error"}

\* child.kill(): signals a live process, does nothing to one that is gone
kill(proc) == IF proc = "alive" THEN "killed" ELSE proc

isBlank(line) == trim(line) = <<>>

Digits == {"1", "2"}

DigitValue(c) == IF c = "1" THEN 1 ELSE 2

RECURSIVE parseInt(_, _)
parseInt(ds, acc) ==
    IF ds = <<>> THEN acc ELSE parseInt(Tail(ds), 10 * acc + DigitValue(Head(ds)))

\* index of the first occurrence of c in s at or after position k, 0 if none
RECURSIVE IndexFrom(_, _, _)
IndexFrom(s, c, k) ==
    IF k > Len(s) THEN 0 ELSE IF s[k] = c THEN k ELSE IndexFrom(s, c, k + 1)

NoResultLine == [path |-> <<>>, lineNumber |-> 0, matchedText |-> <<>>, parsed |-> FALSE]

\* parseLine: the path for a file search, /^([^:]+):(\d+):(.*)$/ for a content
\* search (parsed is FALSE where the code returns null)
parseLine(line, searchType) ==
    IF searchType = "files"
    THEN [path |-> trim(line), lineNumber |-> 0, matchedText |-> <<>>, parsed |-> TRUE]
    ELSE LET c1 == IndexFrom(line, ":", 1)
             c2 == IF c1 = 0 THEN 0 ELSE IndexFrom(line, ":", c1 + 1)
             digits == IF c2 = 0 THEN <<>> ELSE SubSeq(line, c1 + 1, c2 - 1)
         IN  IF /\ c1 > 1
                /\ c2 > c1 + 1
                /\ \A k \in 1..Len(digits) : digits[k] \in Digits
             THEN [path |-> SubSeq(line, 1, c1 - 1),
                   lineNumber |-> parseInt(digits, 0),
                   matchedText |-> SubSeq(line, c2 + 1, Len(line)),
                   parsed |-> TRUE]
             ELSE NoResultLine

\* processLines with the cap test one result late (> instead of >=)
RECURSIVE processLines_capLate(_, _, _, _)
processLines_capLate(lines, acc, maxResults, searchType) ==
    IF lines = <<>> THEN acc
    ELSE LET line == Head(lines) IN
         IF isBlank(line) THEN processLines_capLate(Tail(lines), acc, maxResults, searchType)
         ELSE IF maxResults # 0 /\ acc.resultCount > maxResults
              THEN [acc EXCEPT !.capped = TRUE]
         ELSE LET r == parseLine(line, searchType) IN
              IF r.parsed
              THEN processLines_capLate(Tail(lines),
                                        [acc EXCEPT !.results = Append(@, r),
                                                    !.resultCount = @ + 1],
                                        maxResults, searchType)
              ELSE processLines_capLate(Tail(lines), acc, maxResults, searchType)

\* The loop over the complete lines of one stdout chunk. acc carries
\* session.results, the closure's resultCount and whether the max-results
\* branch was taken (which returns from the handler).
RECURSIVE processLines(_, _, _, _)
processLines(lines, acc, maxResults, searchType) ==
    IF lines = <<>> THEN acc
    ELSE LET line == Head(lines) IN
         IF isBlank(line) THEN processLines(Tail(lines), acc, maxResults, searchType)
         ELSE IF maxResults # 0 /\ acc.resultCount >= maxResults
              THEN [acc EXCEPT !.capped = TRUE]
         ELSE LET r == parseLine(line, searchType) IN
              IF r.parsed
              THEN processLines(Tail(lines),
                                [acc EXCEPT !.results = Append(@, r),
                                            !.resultCount = @ + 1],
                                maxResults, searchType)
              ELSE processLines(Tail(lines), acc, maxResults, searchType)

\* the session object startSearch creates, before executeSearch runs
newSession(opts) ==
    [status |-> "running", results |-> <<>>, error |-> "", age |-> 0,
     endTime |-> "undefined", process |-> "none", searchType |-> opts.searchType,
     maxResults |-> opts.maxResults, buffer |-> <<>>, resultCount |-> 0,
     timer |-> "none", out |-> <<>>, exitCode |-> "none"]

\* executeSearch on a spawn that succeeds: the process handle, the closure
\* variables and the timeout timer ("none" when no timeout is supplied,
\* "pending" until the callback runs, then "fired"). out is what the
\* process will write.
spawned(s, opts, out) ==
    [s EXCEPT !.process = "alive",
              !.timer = IF opts.timeout THEN "pending" ELSE "none",
              !.out = out]

\* startSearch's catch handler, run when executeSearch rejects
failed(s) ==
    [s EXCEPT !.status = "error", !.error = "spawn failed", !.endTime = "set"]

NoStart == [result |-> "none", id |-> 0, size |-> 0]
NoPage == [called |-> FALSE, found |-> FALSE, results |-> <<>>, total |-> 0,
           status |-> "", hasMore |-> FALSE, id |-> 0, offset |-> 0, length |-> 0]

\* startSearch with a cap that counts the running sessions only
startSearchBody_runningOnly(opts, out, spawnOk, isAvailable) ==
    IF ~isAvailable
    THEN /\ lastStart' = [result |-> "unavailable", id |-> 0, size |-> Cardinality(sessions)]
         /\ UNCHANGED <<sessions, sess, nextId, refused>>
    ELSE IF Cardinality({id \in sessions : sess[id].status = "running"}) >= MAX_SESSIONS
    THEN /\ lastStart' = [result |-> "cap", id |-> 0, size |-> Cardinality(sessions)]
         /\ refused' = TRUE
         /\ UNCHANGED <<sessions, sess, nextId>>
    ELSE /\ lastStart' = [result |-> "ok", id |-> nextId, size |-> Cardinality(sessions)]
         /\ sessions' = sessions \cup {nextId}
         /\ sess' = sess @@ (nextId :>
                IF spawnOk THEN spawned(newSession(opts), opts, out)
                ELSE failed(newSession(opts)))
         /\ nextId' = nextId + 1
         /\ UNCHANGED refused

\* startSearchBody with the cap test off by one (> instead of >=)
startSearchBody_capOffByOne(opts, out, spawnOk, isAvailable) ==
    IF ~isAvailable
    THEN /\ lastStart' = [result |-> "unavailable", id |-> 0, size |-> Cardinality(sessions)]
         /\ UNCHANGED <<sessions, sess, nextId, refused>>
    ELSE IF Cardinality(sessions) > MAX_SESSIONS
    THEN /\ lastStart' = [result |-> "cap", id |-> 0, size |-> Cardinality(sessions)]
         /\ refused' = TRUE
         /\ UNCHANGED <<sessions, sess, nextId>>
    ELSE /\ lastStart' = [result |-> "ok", id |-> nextId, size |-> Cardinality(sessions)]
         /\ sessions' = sessions \cup {nextId}
         /\ sess' = sess @@ (nextId :>
                IF spawnOk THEN spawned(newSession(opts), opts, out)
                ELSE failed(newSession(opts)))
         /\ nextId' = nextId + 1
         /\ UNCHANGED refused

\* startSearch after the availability check has answered: the availability
\* test, the cap test, the registration and executeSearch up to its return.
startSearchBody(opts, out, spawnOk, isAvailable) ==
    IF ~isAvailable
    THEN /\ lastStart' = [result |-> "unavailable", id |-> 0, size |-> Cardinality(sessions)]
         /\ UNCHANGED <<sessions, sess, nextId, refused>>
    ELSE IF Cardinality(sessions) >= MAX_SESSIONS
    THEN /\ lastStart' = [result |-> "cap", id |-> 0, size |-> Cardinality(sessions)]
         /\ refused' = TRUE
         /\ UNCHANGED <<sessions, sess, nextId>>
    ELSE /\ lastStart' = [result |-> "ok", id |-> nextId, size |-> Cardinality(sessions)]
         /\ sessions' = sessions \cup {nextId}
         /\ sess' = sess @@ (nextId :>
                IF spawnOk THEN spawned(newSession(opts), opts, out)
                ELSE failed(newSession(opts)))
         /\ nextId' = nextId + 1
         /\ UNCHANGED refused

\* startSearch when the availability is cached: the await resumes in a
\* microtask, before any I/O callback or timer can run.
StartSearchCached(opts, out, spawnOk, limit) ==
    /\ nextId + Len(probing) <= limit
    /\ ripgrepAvailable # "null"
    /\ startSearchBody(opts, out, spawnOk, ripgrepAvailable = "true")
    /\ page' = NoPage
    /\ UNCHANGED <<notSearch, ripgrepAvailable, rgInstalled, probing, cleanupInterval>>

\* startSearch when nothing is cached: checkRipgrepAvailable spawns
\* 'rg --version' and the call is suspended until that process exits.
StartSearchProbe(opts, limit) ==
    /\ nextId + Len(probing) <= limit
    /\ ripgrepAvailable = "null"
    /\ probing' = Append(probing, opts)
    /\ lastStart' = NoStart
    /\ page' = NoPage
    /\ UNCHANGED <<notSearch, sessions, sess, nextId, ripgrepAvailable, rgInstalled,
                   refused, cleanupInterval>>

RemoveAt(q, k) == SubSeq(q, 1, k - 1) \o SubSeq(q, k + 1, Len(q))

\* the probe of the k-th suspended call exits: the result is cached and the
\* call goes on
ProbeExit(k, out, spawnOk) ==
    /\ k \in 1..Len(probing)
    /\ ripgrepAvailable' = IF rgInstalled THEN "true" ELSE "false"
    /\ probing' = RemoveAt(probing, k)
    /\ startSearchBody(probing[k], out, spawnOk, rgInstalled)
    /\ page' = NoPage
    /\ UNCHANGED <<notSearch, rgInstalled, cleanupInterval>>

\* The bytes of a two-byte UTF-8 character, the character they encode and
\* U+FFFD, which the decoder emits for a byte sequence that is not complete.
\* Every other element of a stream is an ASCII byte and stands for itself.
LeadByte == "<C3>"
ContByte == "<A9>"
EAcute == "<e-acute>"
Replacement == "<U+FFFD>"

\* chunk.toString('utf-8'): each chunk is decoded on its own, so a lead byte
\* at the end of a chunk and a continuation byte at the start of one each
\* decode to U+FFFD
RECURSIVE toString(_)
toString(bytes) ==
    IF bytes = <<>> THEN <<>>
    ELSE IF Head(bytes) = LeadByte
         THEN IF Len(bytes) > 1 /\ bytes[2] = ContByte
              THEN <<EAcute>> \o toString(Tail(Tail(bytes)))
              ELSE <<Replacement>> \o toString(Tail(bytes))
    ELSE IF Head(bytes) = ContByte
         THEN <<Replacement>> \o toString(Tail(bytes))
    ELSE <<Head(bytes)>> \o toString(Tail(bytes))

\* proc.stdout 'data': the next n bytes the process wrote. The pipe may
\* still deliver after kill() and after the exit event.
StdoutData(id, n) ==
    /\ id \in DOMAIN sess
    /\ sess[id].process # "none"
    /\ n \in 1..Len(sess[id].out)
    /\ LET s == sess[id]
           text == s.buffer \o toString(SubSeq(s.out, 1, n))
           lines == Split(text, {"\n"})
           done == processLines(SubSeq(lines, 1, Len(lines) - 1),
                                [results |-> s.results, resultCount |-> s.resultCount,
                                 capped |-> FALSE],
                                s.maxResults, s.searchType)
           s1 == [s EXCEPT !.out = SubSeq(s.out, n + 1, Len(s.out)),
                           !.buffer = lines[Len(lines)],
                           !.results = done.results,
                           !.resultCount = done.resultCount]
       IN  sess' = [sess EXCEPT ![id] =
                IF done.capped
                THEN [s1 EXCEPT !.process = kill(s.process),
                                !.status = "completed",
                                !.endTime = "set"]
                ELSE s1]
    /\ lastStart' = NoStart
    /\ page' = NoPage
    /\ UNCHANGED <<notSearch, sessions, nextId, ripgrepAvailable, rgInstalled, probing, refused,
                   cleanupInterval>>

ExitCodes(proc) == IF proc = "killed" THEN {"0", "1", "null"} ELSE {"0", "1"}

\* the exit handler reporting every exit as a clean one
exited_anyCode(s, code) ==
    LET t == [s EXCEPT !.process = "exited", !.exitCode = code]
    IN  IF s.status = "running"
        THEN [t EXCEPT !.status = "completed", !.endTime = "set"]
        ELSE t

\* the body of the 'exit' handler, lines 412-421; exitCode is the code the
\* process handle reports from then on
exited(s, code) ==
    LET t == [s EXCEPT !.process = "exited", !.exitCode = code]
    IN  IF s.status = "running"
        THEN [t EXCEPT !.status = IF code = "0" THEN "completed" ELSE "error",
                       !.endTime = "set",
                       !.error = IF code = "0" THEN @
                                 ELSE "ripgrep exited with code " \o code]
        ELSE t

\* proc 'exit'
ProcExit(id, code) ==
    /\ id \in DOMAIN sess
    /\ sess[id].process \in {"alive", "killed"}
    /\ code \in ExitCodes(sess[id].process)
    /\ sess' = [sess EXCEPT ![id] = exited(sess[id], code)]
    /\ lastStart' = NoStart
    /\ page' = NoPage
    /\ UNCHANGED <<notSearch, sessions, nextId, ripgrepAvailable, rgInstalled, probing, refused,
                   cleanupInterval>>

\* the events of the search process executeSearch installs a listener for
\* (proc.on, line 412); the stdout and stderr listeners are on the streams
procListeners == {"exit"}

\* an 'error' event emitted with no listener for it is thrown by the emitter:
\* an uncaught exception of the server process
uncaughtException(s) == s.process = "errored" /\ "error" \notin procListeners

\* proc 'error': the operating system could not start the process whose
\* handle spawn returned. The handle reports it in a later tick, no 'exit'
\* follows and nothing is written. No listener of executeSearch runs, so the
\* session keeps the fields it has.
ProcError(id) ==
    /\ id \in DOMAIN sess
    /\ sess[id].process = "alive"
    /\ sess[id].results = <<>> /\ sess[id].buffer = <<>>
    /\ sess' = [sess EXCEPT ![id] = [@ EXCEPT !.process = "errored", !.out = <<>>]]
    /\ lastStart' = NoStart
    /\ page' = NoPage
    /\ UNCHANGED <<notSearch, sessions, nextId, ripgrepAvailable, rgInstalled, probing, refused,
                   cleanupInterval>>

\* the timeout callback without its status test
timedOut_unguarded(s) ==
    [s EXCEPT !.timer = "fired", !.process = kill(@), !.status = "completed",
              !.endTime = "set"]

\* the body of the setTimeout callback, lines 426-431
timedOut(s) ==
    IF s.status = "running"
    THEN [s EXCEPT !.timer = "fired", !.process = kill(@), !.status = "completed",
                   !.endTime = "set"]
    ELSE [s EXCEPT !.timer = "fired"]

\* the setTimeout callback of executeSearch
SearchTimeout(id) ==
    /\ id \in DOMAIN sess
    /\ sess[id].timer = "pending"
    /\ sess' = [sess EXCEPT ![id] = timedOut(sess[id])]
    /\ lastStart' = NoStart
    /\ page' = NoPage
    /\ UNCHANGED <<notSearch, sessions, nextId, ripgrepAvailable, rgInstalled, probing, refused,
                   cleanupInterval>>

\* stopSearch(sessionId) on a registered id
StopSearch(id) ==
    /\ id \in sessions
    /\ sess' = [sess EXCEPT ![id] =
            IF @.status = "running" /\ @.process # "none"
            THEN [@ EXCEPT !.process = kill(@), !.status = "stopped", !.endTime = "set"]
            ELSE @]
    /\ lastStart' = NoStart
    /\ page' = NoPage
    /\ UNCHANGED <<notSearch, sessions, nextId, ripgrepAvailable, rgInstalled, probing, refused,
                   cleanupInterval>>

Min(a, b) == IF a < b THEN a ELSE b
Max(a, b) == IF a > b THEN a ELSE b

\* Array.prototype.slice(from, to) with 0 <= from, to <= length
slice(arr, from, to) == SubSeq(arr, from + 1, to)

\* hasMore computed from the page bounds alone
hasMoreOf_pageOnly(status, end, total) == end < total

\* hasMore of getResults
hasMoreOf(status, end, total) == status = "running" \/ end < total

\* getResults with the tail window cut to length results
getResults_tailLength(s, offset, length) ==
    LET total == Len(s.results)
        actualOffset == IF offset < 0 THEN Max(0, total + offset)
                        ELSE Min(offset, total)
        end == Min(actualOffset + length, total)
    IN  [results |-> slice(s.results, actualOffset, end),
         total |-> total,
         status |-> s.status,
         hasMore |-> hasMoreOf(s.status, end, total)]

\* getResults with the forward window ending one result early
getResults_shortPage(s, offset, length) ==
    LET total == Len(s.results)
        actualOffset == IF offset < 0 THEN Max(0, total + offset)
                        ELSE Min(offset, total)
        end == IF offset < 0 THEN total
               ELSE Max(actualOffset, Min(actualOffset + length - 1, total))
    IN  [results |-> slice(s.results, actualOffset, end),
         total |-> total,
         status |-> s.status,
         hasMore |-> hasMoreOf(s.status, end, total)]

\* getResults(sessionId, offset, length) on a registered id
getResults(s, offset, length) ==
    LET total == Len(s.results)
        actualOffset == IF offset < 0 THEN Max(0, total + offset)
                        ELSE Min(offset, total)
        end == IF offset < 0 THEN total ELSE Min(actualOffset + length, total)
    IN  [results |-> slice(s.results, actualOffset, end),
         total |-> total,
         status |-> s.status,
         hasMore |-> hasMoreOf(s.status, end, total)]

GetResults(id, offset, length) ==
    /\ id \in DOMAIN sess
    /\ page' = IF id \in sessions
               THEN LET r == getResults(sess[id], offset, length)
                    IN  [called |-> TRUE, found |-> TRUE, results |-> r.results,
                         total |-> r.total, status |-> r.status, hasMore |-> r.hasMore,
                         id |-> id, offset |-> offset, length |-> length]
               ELSE [NoPage EXCEPT !.called = TRUE, !.id = id, !.offset = offset,
                                   !.length = length]
    /\ lastStart' = NoStart
    /\ UNCHANGED <<notSearch, sessions, sess, nextId, ripgrepAvailable, rgInstalled, probing,
                   refused, cleanupInterval>>

\* toRemove with the status test inverted
toRemove_runningOnly ==
    {id \in sessions : /\ sess[id].age > SESSION_TTL
                       /\ sess[id].status = "running"}

\* toRemove with the age test admitting the age SESSION_TTL itself
toRemove_atTTL ==
    {id \in sessions : /\ sess[id].age >= SESSION_TTL
                       /\ sess[id].status # "running"}

\* cleanup(): what the pass removes
toRemove == {id \in sessions :
                /\ sess[id].age > SESSION_TTL
                /\ sess[id].status # "running"}

\* the setInterval callback of startCleanupTimer
Cleanup ==
    /\ cleanupInterval
    /\ sessions' = sessions \ toRemove
    /\ lastStart' = NoStart
    /\ page' = NoPage
    /\ UNCHANGED <<notSearch, sess, nextId, ripgrepAvailable, rgInstalled, probing, refused,
                   cleanupInterval>>

\* dispose that clears the Map without killing anything
Dispose_noKill ==
    /\ cleanupInterval' = FALSE
    /\ sessions' = {}
    /\ lastStart' = NoStart
    /\ page' = NoPage
    /\ UNCHANGED <<notSearch, sess, nextId, ripgrepAvailable, rgInstalled, probing, refused>>

\* dispose()
Dispose ==
    /\ cleanupInterval' = FALSE
    /\ sess' = [id \in DOMAIN sess |->
            IF id \in sessions /\ sess[id].status = "running" /\ sess[id].process # "none"
            THEN [sess[id] EXCEPT !.process = kill(@)]
            ELSE sess[id]]
    /\ sessions' = {}
    /\ lastStart' = NoStart
    /\ page' = NoPage
    /\ UNCHANGED <<notSearch, nextId, ripgrepAvailable, rgInstalled, probing, refused>>

\* d minutes pass
Tick(d) ==
    /\ sess' = [id \in DOMAIN sess |->
            [sess[id] EXCEPT !.age = Min(@ + d, SESSION_TTL + 1)]]
    /\ lastStart' = NoStart
    /\ page' = NoPage
    /\ UNCHANGED <<notSearch, sessions, nextId, ripgrepAvailable, rgInstalled, probing,
                   refused, cleanupInterval>>

\* the manager after its constructor
InitSearch ==
    /\ sessions = {}
    /\ sess = <<>>
    /\ nextId = 1
    /\ ripgrepAvailable = "null"
    /\ rgInstalled \in BOOLEAN
    /\ probing = <<>>
    /\ refused = FALSE
    /\ lastStart = NoStart
    /\ cleanupInterval = TRUE
    /\ page = NoPage

IdleSearch ==
    /\ sessions = {}
    /\ sess = <<>>
    /\ nextId = 1
    /\ ripgrepAvailable = "null"
    /\ rgInstalled = TRUE
    /\ probing = <<>>
    /\ refused = FALSE
    /\ lastStart = NoStart
    /\ cleanupInterval = TRUE
    /\ page = NoPage

\* ---- sessions getResults is applied to ----
\* the k-th result of a file search that printed the lines "1", "2", ...
ResultOf(k) == parseLine(<<IF k % 2 = 1 THEN "1" ELSE "2">>, "files")

\* a registered session after n results, still running or ended
SessionWith(n, status) ==
    LET o == [searchType |-> "files", maxResults |-> 0, timeout |-> FALSE]
    IN  [spawned(newSession(o), o, <<>>) EXCEPT
            !.results = [k \in 1..n |-> ResultOf(k)],
            !.resultCount = n,
            !.status = status,
            !.error = IF status = "error" THEN "ripgrep exited with code 1" ELSE "",
            !.exitCode = IF status = "running" THEN "none"
                         ELSE IF status = "error" THEN "1" ELSE "0",
            !.endTime = IF status = "running" THEN "undefined" ELSE "set",
            !.process = IF status = "running" THEN "alive" ELSE "exited"]

\* a manager holding one session
InitResults ==
    /\ sessions = {1}
    /\ \E n \in 0..MaxResults, status \in Terminal \cup {"running"} :
            sess = <<SessionWith(n, status)>>
    /\ nextId = 2
    /\ ripgrepAvailable = "true"
    /\ rgInstalled = TRUE
    /\ probing = <<>>
    /\ refused = FALSE
    /\ lastStart = NoStart
    /\ cleanupInterval = TRUE
    /\ page = NoPage

\* ---- inputs of the search specifications ----
LF == "\n"

Streams == { <<"a", LF, LF, "b", LF>> }

SearchOptions ==
    [searchType : {"files"}, maxResults : {0, 1}, timeout : BOOLEAN]

MaxStream == 5    \* characters in one stdout chunk

PlainOptions == [searchType : {"files"}, maxResults : {0}, timeout : {FALSE}]

TimedOptions == [searchType : {"files"}, maxResults : {0}, timeout : BOOLEAN]

\* ---- one search and what its process writes ----
StreamOptions ==
    [searchType : {"files", "content"}, maxResults : {0, 1, 2}, timeout : BOOLEAN]

\* three paths with a blank line between them; two matches around a line
\* that is no match
ProcessOutputs ==
    { <<"a", LF, LF, "b", LF, "c", LF>>,
      <<"a", ":", "1", ":", "x", LF, "b", LF, "a", ":", "2", ":", LF>> }

\* a manager right after startSearch returned the id of a search whose
\* process was spawned
InitStream ==
    /\ sessions = {1}
    /\ \E o \in StreamOptions, out \in ProcessOutputs :
            sess = <<spawned(newSession(o), o, out)>>
    /\ nextId = 2
    /\ ripgrepAvailable = "true"
    /\ rgInstalled = TRUE
    /\ probing = <<>>
    /\ refused = FALSE
    /\ lastStart = NoStart
    /\ cleanupInterval = TRUE
    /\ page = NoPage

(***************************************************************************)
(* Terminal sessions: SessionManager and interact_with_process.            *)
(*                                                                         *)
(* A session object stays reachable from the callbacks create installs and *)
(* from the closure of a polling interact call after the registry dropped  *)
(* its pid, so pty keeps every object created and ptySessions holds the    *)
(* pids the Map contains. A session carries the time since lastActivity,   *)
(* in minutes, counted up to sessionTimeout + 1.                           *)
(*                                                                         *)
(* One interact call is followed at a time. Its clock, call.elapsed, is    *)
(* Date.now() - startTime in milliseconds; it advances in steps of         *)
(* TimeStep and stops at the instant the call's timer is due, which then   *)
(* fires before time moves on.                                             *)
(***************************************************************************)
sessionTimeout == 30      \* 30 * 60 * 1000 ms, in minutes
PollInterval == 100       \* ms

TimeStep == PollInterval \div Granularity

Whitespace == {" ", "\n", "\r", "\t"}

\* what \s*$ leaves in front of it
RECURSIVE StripEnd(_)
StripEnd(s) ==
    IF s # <<>> /\ s[Len(s)] \in Whitespace THEN StripEnd(SubSeq(s, 1, Len(s) - 1)) ELSE s

EndsWith(s, p) == Len(p) <= Len(s) /\ SubSeq(s, Len(s) - Len(p) + 1, Len(s)) = p

\* p occurs in s
Contains(s, p) ==
    \E k \in 1..(Len(s) - Len(p) + 1) : \A i \in 1..Len(p) : s[k + i - 1] = p[i]

\* String.prototype.slice(-n)
sliceLast(s, n) == IF Len(s) <= n THEN s ELSE SubSeq(s, Len(s) - n + 1, Len(s))

promptPatterns ==
    { <<">", ">", ">">>,
      <<".", ".", ".">>,
      <<">">>,
      <<"$">>,
      <<"#">>,
      <<"*">>,
      <<":">> }

errorPatterns ==
    { <<"e", "r", "r", "o", "r", ":">>,
      <<"e", "x", "c", "e", "p", "t", "i", "o", "n", ":">>,
      <<"t", "r", "a", "c", "e", "b", "a", "c", "k">>,
      <<"s", "y", "n", "t", "a", "x", "e", "r", "r", "o", "r">>,
      <<"t", "y", "p", "e", "e", "r", "r", "o", "r">>,
      <<"r", "e", "f", "e", "r", "e", "n", "c", "e", "e", "r", "r", "o", "r">>,
      <<"c", "a", "n", "n", "o", "t", " ", "f", "i", "n", "d">>,
      <<"u", "n", "d", "e", "f", "i", "n", "e", "d">> }

completePatterns ==
    { <<"p", "r", "o", "c", "e", "s", "s", " ", "e", "x", "i", "t", "e", "d">>,
      <<"c", "o", "m", "m", "a", "n", "d", " ", "n", "o", "t", " ", "f", "o", "u", "n", "d">>,
      <<"e", "x", "i", "t", " ", "c", "o", "d", "e">> }

detectPromptOrCompletion(output) ==
    LET lastLines == sliceLast(output, 200)
        stripped == StripEnd(lastLines)
        lower == toLowerCase(output)
    IN  [hasPrompt |-> \E p \in promptPatterns : EndsWith(stripped, p),
         hasError |-> \E p \in errorPatterns : Contains(lower, p),
         isComplete |-> \E p \in completePatterns : Contains(lower, p)]

\* the session object create builds
newPty ==
    [state |-> "idle", outputBuffer |-> <<>>, process |-> "alive", idle |-> 0]

\* lines 117-118 of terminate(pid): the kill went through
terminated(s) == [s EXCEPT !.process = kill(@), !.state = "terminated"]

NoCall ==
    [phase |-> "none", outcome |-> "", pid |-> 0, input |-> <<>>, timeout |-> 0,
     waitForPrompt |-> FALSE, written |-> <<>>, elapsed |-> 0, nextPoll |-> 0,
     polls |-> 0, output |-> <<>>, status |-> ""]

\* op: the call; value: what terminate returned; cleaned: what cleanupStale
\* returned; killRaised: ptyProcess.kill() raised inside terminate; raised:
\* the call raised to its caller
NoRet == [op |-> "none", pid |-> 0, value |-> FALSE, cleaned |-> 0,
          killRaised |-> FALSE, raised |-> FALSE]

\* create(): spawn, build the session, install the callbacks, register
Create(limit) ==
    /\ nextPid <= limit
    /\ pty' = pty @@ (nextPid :> newPty)
    /\ ptySessions' = ptySessions \cup {nextPid}
    /\ nextPid' = nextPid + 1
    /\ ptyRet' = NoRet
    /\ UNCHANGED <<notTerm, ptyCleanupInterval, call>>

\* ptyProcess.onData callback. Output written before a kill signal is still
\* delivered after it.
OnData(pid, data) ==
    /\ pid \in DOMAIN pty
    /\ pty[pid].process \in {"alive", "killed"}
    /\ Len(pty[pid].outputBuffer) < MaxBuffer
    /\ pty' = [pty EXCEPT ![pid] = [@ EXCEPT !.outputBuffer = Append(@, data),
                                             !.idle = 0,
                                             !.state = "running"]]
    /\ ptyRet' = NoRet
    /\ UNCHANGED <<notTerm, ptySessions, nextPid, ptyCleanupInterval, call>>

\* an exit callback that leaves a session waiting for input as it is
OnExit_keepsWaiting(pid) ==
    /\ pid \in DOMAIN pty
    /\ pty[pid].process \in {"alive", "killed"}
    /\ pty' = [pty EXCEPT ![pid] =
            [@ EXCEPT !.process = "exited",
                      !.state = IF @ = "waiting" THEN @ ELSE "terminated"]]
    /\ ptyRet' = NoRet
    /\ UNCHANGED <<notTerm, ptySessions, nextPid, ptyCleanupInterval, call>>

\* ptyProcess.onExit callback
OnExit(pid) ==
    /\ pid \in DOMAIN pty
    /\ pty[pid].process \in {"alive", "killed"}
    /\ pty' = [pty EXCEPT ![pid] = [@ EXCEPT !.process = "exited", !.state = "terminated"]]
    /\ ptyRet' = NoRet
    /\ UNCHANGED <<notTerm, ptySessions, nextPid, ptyCleanupInterval, call>>

\* terminate that leaves the entry in the Map
terminate_keepsEntry(reg, objs, pid, killOk) ==
    IF pid \notin reg
    THEN [sessions |-> reg, pty |-> objs, value |-> FALSE, killRaised |-> FALSE]
    ELSE IF killOk
    THEN [sessions |-> reg,
          pty |-> [objs EXCEPT ![pid] = terminated(@)],
          value |-> TRUE, killRaised |-> FALSE]
    ELSE [sessions |-> reg, pty |-> objs, value |-> FALSE, killRaised |-> TRUE]

\* terminate(pid) on the registry reg and the session objects objs. killOk
\* is FALSE when ptyProcess.kill() raises: the catch block returns false
\* and lines 118-119 are not reached.
terminate(reg, objs, pid, killOk) ==
    IF pid \notin reg
    THEN [sessions |-> reg, pty |-> objs, value |-> FALSE, killRaised |-> FALSE]
    ELSE IF killOk
    THEN [sessions |-> reg \ {pid},
          pty |-> [objs EXCEPT ![pid] = terminated(@)],
          value |-> TRUE, killRaised |-> FALSE]
    ELSE [sessions |-> reg, pty |-> objs, value |-> FALSE, killRaised |-> TRUE]

\* terminate(pid) called on the manager
Terminate(pid, killOk) ==
    /\ LET t == terminate(ptySessions, pty, pid, killOk)
       IN  /\ pty' = t.pty
           /\ ptySessions' = t.sessions
           /\ ptyRet' = [NoRet EXCEPT !.op = "terminate", !.pid = pid, !.value = t.value,
                                      !.killRaised = t.killRaised]
    /\ UNCHANGED <<notTerm, nextPid, ptyCleanupInterval, call>>

\* the test of cleanupStale, line 139
isStale(s) == s.idle > sessionTimeout \/ s.state = "terminated"

\* the first key of the Map among todo (pids are issued in increasing order)
FirstOf(todo) == CHOOSE pid \in todo : \A q \in todo : pid <= q

\* the loop of cleanupStale over the entries todo; failing are the pids
\* whose kill raises. acc carries the Map, the objects and the counter.
RECURSIVE cleanupLoop(_, _, _)
cleanupLoop(todo, acc, failing) ==
    IF todo = {} THEN acc
    ELSE LET pid == FirstOf(todo) IN
         IF isStale(acc.pty[pid])
         THEN LET t == terminate(acc.sessions, acc.pty, pid, pid \notin failing)
              IN  cleanupLoop(todo \ {pid},
                              [sessions |-> t.sessions, pty |-> t.pty,
                               cleaned |-> acc.cleaned + 1],
                              failing)
         ELSE cleanupLoop(todo \ {pid}, acc, failing)

\* cleanupStale()
cleanupStale(failing) ==
    cleanupLoop(ptySessions, [sessions |-> ptySessions, pty |-> pty, cleaned |-> 0], failing)

\* the setInterval callback of startCleanupInterval
CleanupStale(failing) ==
    /\ ptyCleanupInterval
    /\ failing \subseteq ptySessions
    /\ LET r == cleanupStale(failing)
       IN  /\ pty' = r.pty
           /\ ptySessions' = r.sessions
           /\ ptyRet' = [NoRet EXCEPT !.op = "cleanupStale", !.cleaned = r.cleaned]
    /\ UNCHANGED <<notTerm, nextPid, ptyCleanupInterval, call>>

\* the loop of shutdown over the keys todo
RECURSIVE shutdownLoop(_, _, _)
shutdownLoop(todo, acc, failing) ==
    IF todo = {} THEN acc
    ELSE LET pid == FirstOf(todo)
             t == terminate(acc.sessions, acc.pty, pid, pid \notin failing)
         IN  shutdownLoop(todo \ {pid}, [sessions |-> t.sessions, pty |-> t.pty], failing)

\* shutdown()
Shutdown(failing) ==
    /\ failing \subseteq ptySessions
    /\ ptyCleanupInterval' = FALSE
    /\ LET r == shutdownLoop(ptySessions, [sessions |-> ptySessions, pty |-> pty], failing)
       IN  /\ pty' = r.pty
           /\ ptySessions' = r.sessions
    /\ ptyRet' = [NoRet EXCEPT !.op = "shutdown"]
    /\ UNCHANGED <<notTerm, nextPid, call>>

\* the members of class SessionManager
SessionManagerMethods ==
    {"create", "get", "listSessions", "listAll", "terminate", "cleanupStale",
     "startCleanupInterval", "shutdown", "count"}

\* the SIGINT/SIGTERM handler of main: its first statement calls
\* sessionManager.dispose(), which is not a member of SessionManager, so the
\* call raises a TypeError and the rest of the handler does not run
ShutdownHandler ==
    /\ "dispose" \notin SessionManagerMethods
    /\ ptyRet' = [NoRet EXCEPT !.op = "dispose", !.raised = TRUE]
    /\ UNCHANGED <<notTerm, ptySessions, pty, nextPid, ptyCleanupInterval, call>>

\* d minutes pass
PtyTick(d) ==
    /\ pty' = [pid \in DOMAIN pty |->
                  [pty[pid] EXCEPT !.idle = Min(@ + d, sessionTimeout + 1)]]
    /\ ptyRet' = NoRet
    /\ UNCHANGED <<notTerm, ptySessions, nextPid, ptyCleanupInterval, call>>

\* an interaction that writes without clearing the buffer first
sendInput_keepsBuffer(s) == [s EXCEPT !.state = "running"]

\* interact lines 86-91: clear the buffer, write, set the state
sendInput(s) == [s EXCEPT !.outputBuffer = <<>>, !.state = "running"]

\* the string handed to ptyProcess.write: args.input + '\\r', a backslash
\* and the letter r
writtenFor(input) == input \o <<"\\", "r">>

\* interactWithProcessTool up to its await
Interact(pid, input, timeout, waitForPrompt) ==
    /\ call.phase \in {"none", "returned"}
    /\ LET c == [NoCall EXCEPT !.pid = pid, !.input = input, !.timeout = timeout,
                               !.waitForPrompt = waitForPrompt]
       IN  IF pid \notin ptySessions
           THEN /\ call' = [c EXCEPT !.phase = "returned", !.outcome = "not found"]
                /\ UNCHANGED pty
           ELSE IF pty[pid].state = "terminated"
           THEN /\ call' = [c EXCEPT !.phase = "returned", !.outcome = "terminated"]
                /\ UNCHANGED pty
           ELSE /\ pty' = [pty EXCEPT ![pid] = sendInput(@)]
                /\ call' = [c EXCEPT !.phase = IF waitForPrompt THEN "polling" ELSE "sleeping",
                                     !.outcome = "sent",
                                     !.written = writtenFor(input),
                                     !.nextPoll = PollInterval]
    /\ ptyRet' = NoRet
    /\ UNCHANGED <<notTerm, ptySessions, nextPid, ptyCleanupInterval>>

\* the early-exit test giving up one polling interval late
pollExits_late(detection, elapsed, timeout) ==
    \/ detection.hasPrompt \/ detection.hasError \/ detection.isComplete
    \/ elapsed > timeout + PollInterval

\* the early-exit test of the polling callback
pollExits(detection, elapsed, timeout) ==
    detection.hasPrompt \/ detection.hasError \/ detection.isComplete \/ elapsed > timeout

\* interact lines 127-138: the status reported
statusOf(detection, elapsed, timeout) ==
    IF detection.hasPrompt THEN "ready (waiting for input)"
    ELSE IF detection.hasError THEN "error"
    ELSE IF elapsed >= timeout THEN "timeout (may still be running)"
    ELSE "completed"

\* the setInterval callback of the wait loop, and the rest of the call when
\* the callback resolves the promise
Poll ==
    /\ call.phase = "polling"
    /\ call.elapsed = call.nextPoll
    /\ \E output \in {Concat(pty[call.pid].outputBuffer)} :
       \E detection \in {detectPromptOrCompletion(output)} :
           IF pollExits(detection, call.elapsed, call.timeout)
           THEN /\ pty' = [pty EXCEPT ![call.pid] =
                            IF detection.hasPrompt THEN [@ EXCEPT !.state = "waiting"]
                            ELSE IF detection.isComplete THEN [@ EXCEPT !.state = "terminated"]
                            ELSE @]
                /\ call' = [call EXCEPT !.phase = "returned",
                                        !.polls = @ + 1,
                                        !.output = output,
                                        !.status = statusOf(detection, call.elapsed,
                                                            call.timeout)]
           ELSE /\ call' = [call EXCEPT !.nextPoll = @ + PollInterval,
                                        !.polls = @ + 1,
                                        !.output = output]
                /\ UNCHANGED pty
    /\ ptyRet' = NoRet
    /\ UNCHANGED <<notTerm, ptySessions, nextPid, ptyCleanupInterval>>

\* the setTimeout callback of the plain wait, and the rest of the call
Wake ==
    /\ call.phase = "sleeping"
    /\ call.elapsed = call.timeout
    /\ \E output \in {Concat(pty[call.pid].outputBuffer)} :
       \E detection \in {detectPromptOrCompletion(output)} :
           call' = [call EXCEPT !.phase = "returned",
                                !.output = output,
                                !.status = statusOf(detection, call.elapsed, call.timeout)]
    /\ ptyRet' = NoRet
    /\ UNCHANGED <<notTerm, ptySessions, pty, nextPid, ptyCleanupInterval>>

\* the instant at which the pending timer of the call is due
deadline == IF call.phase = "polling" THEN call.nextPoll ELSE call.timeout

\* time passes during the wait of the call, up to the next timer
Advance ==
    /\ call.phase \in {"polling", "sleeping"}
    /\ call.elapsed < deadline
    /\ call' = [call EXCEPT !.elapsed = Min(@ + TimeStep, deadline)]
    /\ ptyRet' = NoRet
    /\ UNCHANGED <<notTerm, ptySessions, pty, nextPid, ptyCleanupInterval>>

(***************************************************************************)
(* The tools read_process_output and start_process. Both take the session  *)
(* object itself from the registry and read and empty its outputBuffer     *)
(* after a wait; what runs after the await is one step of its own.         *)
(***************************************************************************)
NoRead == [phase |-> "none", pid |-> 0, found |-> FALSE, output |-> <<>>,
           text |-> <<>>, overlaps |-> FALSE]

NoReads == [r \in 1..MaxReadCalls |-> NoRead]

\* '[No new output]'
NoNewOutput ==
    <<"[", "N", "o", " ", "n", "e", "w", " ", "o", "u", "t", "p", "u", "t", "]">>

\* a read that leaves the buffer as it found it
drained_keepsBuffer(s) == s

\* session.outputBuffer = [] after the join
drained(s) == [s EXCEPT !.outputBuffer = <<>>]

\* readProcessOutputTool up to its await: the lookup of the session.
\* overlaps records that another read of the same session is waiting.
ReadProcessOutput(r, pid) ==
    /\ r \in DOMAIN reads
    /\ reads[r].phase = "none"
    /\ reads' = [reads EXCEPT ![r] =
            IF pid \in ptySessions
            THEN [NoRead EXCEPT !.phase = "waiting", !.pid = pid, !.found = TRUE,
                                !.overlaps = \E q \in DOMAIN reads :
                                                /\ reads[q].phase = "waiting"
                                                /\ reads[q].pid = pid]
            ELSE [NoRead EXCEPT !.phase = "returned", !.pid = pid]]
    /\ UNCHANGED <<pathVars, cmdVars, searchVars, termVars, readOut, started, fileVars>>

\* the timer of the read fires: the buffer is joined, emptied and returned
ReadWake(r) ==
    /\ r \in DOMAIN reads
    /\ reads[r].phase = "waiting"
    /\ LET pid == reads[r].pid
           output == Concat(pty[pid].outputBuffer)
       IN  /\ pty' = [pty EXCEPT ![pid] = drained(@)]
           /\ reads' = [reads EXCEPT ![r] =
                    [@ EXCEPT !.phase = "returned",
                              !.output = output,
                              !.text = IF output = <<>> THEN NoNewOutput ELSE output]]
           /\ readOut' = Append(readOut, [pid |-> pid, output |-> output])
    /\ ptyRet' = NoRet
    /\ UNCHANGED <<pathVars, cmdVars, searchVars, ptySessions, nextPid, ptyCleanupInterval,
                   call, started, fileVars>>

NoStarted ==
    [phase |-> "none", outcome |-> "", command |-> <<>>, cwd |-> <<>>, shell |-> <<>>,
     file |-> <<>>, args |-> <<>>, dir |-> <<>>, pid |-> 0, output |-> <<>>]

\* process.env.HOME, here the directory the server runs in
Home == Cwd

\* args.cwd || process.env.HOME || process.cwd()
cwdOf(cwd) == IF cwd # <<>> THEN cwd ELSE Home

\* startProcessTool up to its await: the two validations, then
\* sessionManager.create(shell, cmdArgs, resolvedPath). file, args and dir
\* are what spawnPty is called with; a spawn that raises is caught by the
\* tool. An absent cwd or shell is the empty string.
StartProcess(cmd, cwd, shell, spawnOk, limit) ==
    /\ started.phase # "waiting"
    /\ nextPid <= limit
    /\ LET c == [NoStarted EXCEPT !.phase = "returned", !.command = cmd, !.cwd = cwd,
                                  !.shell = shell]
           cmdValidation == validateCommand(cmd, blockedConfig)
           pathValidation == validatePath(cwdOf(cwd), allowedDirectories)
           words == Split(cmd, {" "})
       IN  IF ~cmdValidation.valid
           THEN /\ started' = [c EXCEPT !.outcome = "command rejected"]
                /\ UNCHANGED <<ptySessions, pty, nextPid>>
           ELSE IF ~pathValidation.valid
           THEN /\ started' = [c EXCEPT !.outcome = "cwd rejected"]
                /\ UNCHANGED <<ptySessions, pty, nextPid>>
           ELSE IF ~spawnOk
           THEN /\ started' = [c EXCEPT !.outcome = "spawn failed"]
                /\ UNCHANGED <<ptySessions, pty, nextPid>>
           ELSE /\ started' = [c EXCEPT !.phase = "waiting",
                                        !.outcome = "started",
                                        !.file = IF shell # <<>> THEN shell ELSE Head(words),
                                        !.args = Tail(words),
                                        !.dir = pathValidation.resolvedPath,
                                        !.pid = nextPid]
                /\ pty' = pty @@ (nextPid :> newPty)
                /\ ptySessions' = ptySessions \cup {nextPid}
                /\ nextPid' = nextPid + 1
    /\ ptyRet' = NoRet
    /\ UNCHANGED <<pathVars, cmdVars, searchVars, ptyCleanupInterval, call, reads, readOut,
                   fileVars>>

\* the timer of start_process fires: the initial output is joined, the
\* buffer emptied and the call returns
StartProcessWake ==
    /\ started.phase = "waiting"
    /\ started' = [started EXCEPT !.phase = "returned",
                                  !.output = Concat(pty[started.pid].outputBuffer)]
    /\ pty' = [pty EXCEPT ![started.pid] = drained(@)]
    /\ ptyRet' = NoRet
    /\ UNCHANGED <<pathVars, cmdVars, searchVars, ptySessions, nextPid, ptyCleanupInterval,
                   call, reads, readOut, fileVars>>

(***************************************************************************)
(* SecurityValidator.findExistingParent.                                   *)
(***************************************************************************)
\* path.dirname(p) of node:path/posix: the path up to the last "/" that has a
\* name after it; trailing slashes are skipped. "." for a name without a
\* directory, "/" for a name under the root.
dirname(p) ==
    IF p = <<>> THEN <<".">>
    ELSE LET hasRoot == p[1] = "/"
             ends == {i \in 2..Len(p) :
                        p[i] = "/" /\ \E j \in (i + 1)..Len(p) : p[j] # "/"}
         IN  IF ends = {} THEN (IF hasRoot THEN <<"/">> ELSE <<".">>)
             ELSE LET e == CHOOSE i \in ends : \A k \in ends : k <= i
                  IN  IF hasRoot /\ e = 2 THEN <<"/", "/">>
                      ELSE SubSeq(p, 1, e - 1)

\* fs.existsSync(p) for any path: a relative one is looked up from the
\* working directory, the empty path exists nowhere
existsSyncFromCwd(p) == p # <<>> /\ existsSync(resolve(p))

NoFound == [null |-> TRUE, path |-> <<>>]
Found(p) == [null |-> FALSE, path |-> p]

NoParent == [path |-> <<>>, current |-> <<>>, returned |-> TRUE, result |-> NoFound]

\* one test of the while condition of findExistingParent and, when it
\* holds, one run of the loop body; the return null when it does not
FindExistingParentStep ==
    /\ ~parent.returned
    /\ parent' =
            IF parent.current # <<"/">>
            THEN IF existsSyncFromCwd(parent.current)
                 THEN [parent EXCEPT !.returned = TRUE, !.result = Found(parent.current)]
                 ELSE [parent EXCEPT !.current = dirname(parent.current)]
            ELSE [parent EXCEPT !.returned = TRUE, !.result = NoFound]
    /\ UNCHANGED <<pathVars, cmdVars, searchVars, termVars, reads, readOut, started,
                   edit, disk, multi, callCounts, response>>

IdleParent == parent = NoParent

\* ---- inputs of findExistingParent ----
ParentNames == {A, F, N}

ParentSegs == UNION {[1..n -> ParentNames] : n \in 0..MaxDepth}

ParentPaths ==
    {ToPath(segs) : segs \in ParentSegs} \cup {JoinRel(segs) : segs \in ParentSegs}
    \cup { <<"/", "/", "n">>, <<"n", "/">> }

\* findExistingParent(path) entered
InitParent ==
    \E path \in ParentPaths :
        parent = [path |-> path, current |-> path, returned |-> FALSE, result |-> NoFound]

(***************************************************************************)
(* edit_block: countOccurrences and editBlockTool.                         *)
(***************************************************************************)
\* String.prototype.indexOf(search, pos): the first index at or after pos
\* (counted from 0) where search starts, -1 when there is none. The empty
\* string is found at pos itself, up to the length of the text.
indexOf(text, search, pos) ==
    LET start == Min(Max(pos, 0), Len(text))
        hits == {k \in start..(Len(text) - Len(search)) :
                    SubSeq(text, k + 1, k + Len(search)) = search}
    IN  IF hits = {} THEN -1 ELSE CHOOSE k \in hits : \A h \in hits : k <= h

\* GetSubstitution of String.prototype.replace: "$$" stands for "$" and "$&"
\* for the matched text; the model's alphabet has no other pattern
RECURSIVE GetSubstitution(_, _)
GetSubstitution(matched, replacement) ==
    IF replacement = <<>> THEN <<>>
    ELSE IF Head(replacement) = "$" /\ Len(replacement) > 1 /\ replacement[2] = "$"
         THEN <<"$">> \o GetSubstitution(matched, Tail(Tail(replacement)))
    ELSE IF Head(replacement) = "$" /\ Len(replacement) > 1 /\ replacement[2] = "&"
         THEN matched \o GetSubstitution(matched, Tail(Tail(replacement)))
    ELSE <<Head(replacement)>> \o GetSubstitution(matched, Tail(replacement))

\* content.replace(oldString, newString) with a string pattern: the first
\* occurrence only
replace(content, oldString, newString) ==
    LET k == indexOf(content, oldString, 0)
    IN  IF k = -1 THEN content
        ELSE SubSeq(content, 1, k) \o GetSubstitution(oldString, newString)
             \o SubSeq(content, k + Len(oldString) + 1, Len(content))

\* content.split(sep): the pieces between the occurrences of sep, taken from
\* left to right; the characters of the content when sep is empty
RECURSIVE split(_, _)
split(content, sep) ==
    IF sep = <<>> THEN [k \in 1..Len(content) |-> <<content[k]>>]
    ELSE LET k == indexOf(content, sep, 0)
         IN  IF k = -1 THEN <<content>>
             ELSE <<SubSeq(content, 1, k)>>
                  \o split(SubSeq(content, k + Len(sep) + 1, Len(content)), sep)

\* parts.join(glue)
RECURSIVE join(_, _)
join(parts, glue) ==
    IF parts = <<>> THEN <<>>
    ELSE IF Len(parts) = 1 THEN Head(parts)
    ELSE Head(parts) \o glue \o join(Tail(parts), glue)

MaxText == 3     \* characters of a file
MaxCount == 5    \* the loop counter is followed up to this value

NoEdit ==
    [phase |-> "none", path |-> <<>>, oldString |-> <<>>, newString |-> <<>>,
     replaceAll |-> FALSE, before |-> <<>>, validPath |-> <<>>, content |-> <<>>,
     pos |-> 0, count |-> 0, text |-> ""]

NoDisk == <<>>

\* editBlockTool up to the loop of countOccurrences: validatePath and
\* readFile, whose ENOENT becomes the error result of the catch block
EditBlock ==
    /\ edit.phase = "called"
    /\ \E validation \in {validatePath(edit.path, allowedDirectories)} :
           IF ~validation.valid
           THEN edit' = [edit EXCEPT !.phase = "returned", !.text = "Error"]
           ELSE IF validation.resolvedPath \notin DOMAIN disk
           THEN edit' = [edit EXCEPT !.phase = "returned", !.text = "Error",
                                     !.validPath = validation.resolvedPath]
           ELSE edit' = [edit EXCEPT !.phase = "counting",
                                     !.validPath = validation.resolvedPath,
                                     !.content = disk[validation.resolvedPath]]
    /\ UNCHANGED <<pathVars, cmdVars, searchVars, termVars, reads, readOut, started,
                   parent, disk, multi, callCounts, response>>

\* One test of the while condition of countOccurrences and, when indexOf
\* finds the string, one run of the loop body. When it does not, the rest
\* of editBlockTool: the two refusals, or the replacement and writeFile.
CountStep ==
    /\ edit.phase = "counting"
    /\ \E found \in {indexOf(edit.content, edit.oldString, edit.pos)} :
           IF found # -1
           THEN /\ edit' = [edit EXCEPT !.count = Min(@ + 1, MaxCount),
                                        !.pos = found + Len(edit.oldString)]
                /\ UNCHANGED disk
           ELSE IF edit.count = 0 \/ (~edit.replaceAll /\ edit.count > 1)
           THEN /\ edit' = [edit EXCEPT !.phase = "returned", !.text = "Error"]
                /\ UNCHANGED disk
           ELSE /\ disk' = [disk EXCEPT ![edit.validPath] =
                        IF edit.replaceAll
                        THEN join(split(edit.content, edit.oldString), edit.newString)
                        ELSE replace(edit.content, edit.oldString, edit.newString)]
                /\ edit' = [edit EXCEPT !.phase = "returned",
                                        !.text = "Successfully edited"]
    /\ UNCHANGED <<pathVars, cmdVars, searchVars, termVars, reads, readOut, started,
                   parent, multi, callCounts, response>>

IdleEdit == edit = NoEdit /\ disk = NoDisk

\* ---- inputs of edit_block ----
EditChars == {"a", "b"}

Texts == UNION {[1..n -> EditChars] : n \in 0..MaxText}

OldStrings == UNION {[1..n -> EditChars] : n \in 0..2}

NewStrings == { <<>>, <<"b">>, <<"$", "$">>, <<"$", "&">> }

\* a file inside the allowed directory, a file outside it, a path inside
\* that names no file
EditPaths == { ToPath(<<A, F>>), ToPath(<<O, F>>), ToPath(<<A, N>>) }

EditFiles == { ToPath(<<A, F>>), ToPath(<<O, F>>) }

\* edit_block called on a server that allows /a; both files hold the same
\* text
InitEdit ==
    /\ allowedDirectories = <<ToPath(<<A>>)>>
    /\ requestedPath = <<>>
    /\ pathResult = NoResult
    /\ \E path \in EditPaths, old \in OldStrings, new \in NewStrings,
          all \in BOOLEAN, text \in Texts :
            /\ edit = [NoEdit EXCEPT !.phase = "called", !.path = path,
                                     !.oldString = old, !.newString = new,
                                     !.replaceAll = all, !.before = text]
            /\ disk = [f \in EditFiles |-> text]

(***************************************************************************)
(* read_multiple_files. Sizes are in bytes.                                *)
(***************************************************************************)
MAX_FILE_SIZE == 1048576      \* 1024 * 1024
MAX_TOTAL_SIZE == 5242880     \* 5 * 1024 * 1024
previewSize == 102400         \* 100 * 1024

MaxFiles == 6    \* paths of one call

NoMulti ==
    [phase |-> "none", paths |-> 0, results |-> <<>>, totalBytesRead |-> 0,
     operationTruncated |-> FALSE]

NotRead(error) ==
    [success |-> FALSE, error |-> error, truncated |-> FALSE, truncationReason |-> "",
     bytes |-> 0]

Read(bytes, truncationReason) ==
    [success |-> TRUE, error |-> "", truncated |-> truncationReason # "",
     truncationReason |-> truncationReason, bytes |-> bytes]

\* One turn of the loop over args.paths, for a path the validator accepts
\* or not, that names a regular file or not, of the given size. bytes is
\* what the turn adds to totalBytesRead. The turn after the last path is
\* followed by the return of the tool.
ReadNext(f) ==
    /\ multi.phase = "reading"
    /\ LET remainingBudget == MAX_TOTAL_SIZE - multi.totalBytesRead
           r == IF multi.totalBytesRead >= MAX_TOTAL_SIZE THEN NotRead("total size limit")
                ELSE IF ~f.valid THEN NotRead("validation")
                ELSE IF ~f.isFile THEN NotRead("not a regular file")
                ELSE IF f.size > MAX_FILE_SIZE
                     THEN Read(Min(previewSize, f.size), "file_size_limit")
                ELSE IF f.size > remainingBudget
                     THEN Read(Min(remainingBudget, f.size), "total_size_limit")
                ELSE Read(f.size, "")
           results == Append(multi.results, r)
       IN  multi' = [multi EXCEPT
                !.results = results,
                !.totalBytesRead = @ + r.bytes,
                !.operationTruncated =
                    @ \/ r.error = "total size limit"
                      \/ r.truncationReason = "total_size_limit",
                !.phase = IF Len(results) = multi.paths THEN "returned" ELSE "reading"]
    /\ UNCHANGED <<pathVars, cmdVars, searchVars, termVars, reads, readOut, started,
                   parent, edit, disk, callCounts, response>>

IdleMulti == multi = NoMulti

\* ---- inputs of read_multiple_files ----
FileSizes == {1, MAX_FILE_SIZE - 1, MAX_FILE_SIZE, 2 * MAX_FILE_SIZE}

PathKinds ==
    [valid : {TRUE}, isFile : {TRUE}, size : FileSizes]
    \cup {[valid |-> FALSE, isFile |-> TRUE, size |-> 1]}

\* readMultipleFilesTool entered with a list of 1..MaxFiles paths
InitMulti ==
    \E n \in 1..MaxFiles : multi = [NoMulti EXCEPT !.phase = "reading", !.paths = n]

(***************************************************************************)
(* The CallTool handler of the server and the usage tracker.               *)
(***************************************************************************)
\* UsageTracker.incrementToolCall
incrementToolCall(counts, toolName) ==
    [n \in DOMAIN counts \cup {toolName} |->
        (IF n \in DOMAIN counts THEN counts[n] ELSE 0) + (IF n = toolName THEN 1 ELSE 0)]

RECURSIVE SumOver(_, _)
SumOver(counts, names) ==
    IF names = {} THEN 0
    ELSE LET n == CHOOSE x \in names : TRUE
         IN  counts[n] + SumOver(counts, names \ {n})

\* getStats: totalCalls
totalCalls(counts) == SumOver(counts, DOMAIN counts)

MaxCalls == 5    \* counted calls followed

NoCounts == [n \in {} |-> 0]

NoResponse == [name |-> "", text |-> "", thrown |-> FALSE, totalCalls |-> 0]

\* The handler for one request. list_sessions and get_usage_stats return
\* their text; terminate_process parses its arguments (pid a positive
\* integer) and, for a pid the registry does not hold, returns the text
\* 'Error: Process not found'; any other name throws 'Unknown tool'. What a
\* tool returns is counted, what is thrown is turned into an 'Error: ...'
\* result by the catch block.
CallTool(name, pid) ==
    /\ totalCalls(callCounts) < MaxCalls
    /\ pid \notin ptySessions
    /\ LET thrown == \/ name \notin {"list_sessions", "get_usage_stats", "terminate_process"}
                     \/ name = "terminate_process" /\ pid <= 0
           text == IF thrown \/ name = "terminate_process" THEN "Error" ELSE "ok"
       IN  /\ response' = [name |-> name, text |-> text, thrown |-> thrown,
                           totalCalls |-> IF name = "get_usage_stats"
                                          THEN totalCalls(callCounts) ELSE 0]
           /\ callCounts' = IF thrown THEN callCounts
                            ELSE incrementToolCall(callCounts, name)
    /\ UNCHANGED <<pathVars, cmdVars, searchVars, termVars, reads, readOut, started,
                   parent, edit, disk, multi>>

IdleUsage == callCounts = NoCounts /\ response = NoResponse

\* ---- inputs of the handler ----
ToolNames == {"list_sessions", "get_usage_stats", "terminate_process", "no_such_tool"}

\* no read_process_output or start_process call was made yet
IdleCalls ==
    /\ reads = NoReads
    /\ readOut = <<>>
    /\ started = NoStarted

\* no tool call was made yet
IdleTools ==
    /\ IdleCalls
    /\ IdleParent
    /\ IdleEdit
    /\ IdleMulti
    /\ IdleUsage

\* a registry nobody used, without the tools
IdlePty ==
    /\ ptySessions = {}
    /\ pty = <<>>
    /\ nextPid = 1
    /\ ptyCleanupInterval = TRUE
    /\ call = NoCall
    /\ ptyRet = NoRet

\* the manager after its constructor
InitTerm ==
    /\ ptySessions = {}
    /\ pty = <<>>
    /\ nextPid = 1
    /\ ptyCleanupInterval = TRUE
    /\ call = NoCall
    /\ ptyRet = NoRet
    /\ IdleTools

IdleTerm ==
    /\ ptySessions = {}
    /\ pty = <<>>
    /\ nextPid = 1
    /\ ptyCleanupInterval = TRUE
    /\ call = NoCall
    /\ ptyRet = NoRet
    /\ IdleTools

\* ---- inputs of the terminal specification ----
Chunks ==
    { <<"o", "k", "\n">>,
      <<">", ">", ">", " ">>,
      <<"u", "n", "d", "e", "f", "i", "n", "e", "d", "\n">>,
      <<"e", "x", "i", "t", " ", "c", "o", "d", "e", " ", "1", "\n">> }

Inputs == { <<>>, <<"x">> }

Timeouts == { k * TimeStep : k \in 1..MaxTimeoutSteps }

(***************************************************************************)
(* Specifications. Each one runs one component; the state of the other     *)
(* components stays as constructed.                                        *)
(***************************************************************************)
IdlePath ==
    /\ allowedDirectories = <<>>
    /\ requestedPath = <<>>
    /\ pathResult = NoResult

IdleCmd ==
    /\ blockedConfig = <<>>
    /\ command = <<>>
    /\ cmdResult = NoResult

NextPath == ValidatePath /\ UNCHANGED <<cmdVars, searchVars, termVars, toolVars>>

InitSpecPath == InitPath /\ IdleCmd /\ IdleSearch /\ IdleTerm

SpecPath == InitSpecPath /\ [][NextPath]_vars

NextCmd == ValidateCommand /\ UNCHANGED <<pathVars, searchVars, termVars, toolVars>>

InitSpecCmd == InitCmd /\ IdlePath /\ IdleSearch /\ IdleTerm

SpecCmd == InitSpecCmd /\ [][NextCmd]_vars

\* One search manager, every event of a session.
NextSearch ==
    \/ \E o \in SearchOptions, out \in Streams, ok \in BOOLEAN :
            StartSearchCached(o, out, ok, MaxStarts)
    \/ \E o \in SearchOptions : StartSearchProbe(o, MaxStarts)
    \/ \E k \in 1..MaxStarts, out \in Streams, ok \in BOOLEAN : ProbeExit(k, out, ok)
    \/ \E id \in 1..MaxStarts, n \in 1..MaxStream : StdoutData(id, n)
    \/ \E id \in 1..MaxStarts, code \in {"0", "1", "null"} : ProcExit(id, code)
    \/ \E id \in 1..MaxStarts : ProcError(id)
    \/ \E id \in 1..MaxStarts : SearchTimeout(id)
    \/ \E id \in 1..MaxStarts : StopSearch(id)
    \/ \E id \in 1..MaxStarts, offset \in (-MaxOffset)..MaxOffset, length \in 1..MaxLength :
            GetResults(id, offset, length)
    \/ Cleanup
    \/ Dispose
    \/ \E d \in {1, SESSION_TTL} : Tick(d)

InitSpecSearch == InitSearch /\ IdlePath /\ IdleCmd /\ IdleTerm

SpecSearch == InitSpecSearch /\ [][NextSearch]_vars

\* getResults as a function of the session, the offset and the length.
NextResults ==
    \E offset \in (-MaxOffset)..MaxOffset, length \in 1..MaxLength :
        GetResults(1, offset, length)

InitSpecResults == InitResults /\ IdlePath /\ IdleCmd /\ IdleTerm

SpecResults == InitSpecResults /\ [][NextResults]_vars

\* The registry up to its cap: searches that print nothing and end when
\* their process exits with code 0.
NextCap ==
    \/ \E o \in PlainOptions : StartSearchCached(o, <<>>, TRUE, MaxCapStarts)
    \/ \E o \in PlainOptions : StartSearchProbe(o, MaxCapStarts)
    \/ \E k \in 1..MaxCapStarts : ProbeExit(k, <<>>, TRUE)
    \/ \E id \in 1..MaxCapStarts : ProcExit(id, "0")
    \/ Cleanup
    \/ Tick(SESSION_TTL + 1)

InitSpecCap == InitSearch /\ IdlePath /\ IdleCmd /\ IdleTerm

\* the cleanup timer keeps firing while it is set, and time keeps advancing
SpecCap ==
    InitSpecCap /\ [][NextCap]_vars /\ WF_vars(Cleanup) /\ WF_vars(Tick(SESSION_TTL + 1))

\* The search registry with several sessions alive at its disposal: each
\* search may have a timeout, and is read, stopped or disposed while its
\* process runs, is killed or has exited.
NextDispose ==
    \/ \E o \in TimedOptions, ok \in BOOLEAN :
            StartSearchCached(o, <<>>, ok, MaxLiveStarts)
    \/ \E o \in TimedOptions : StartSearchProbe(o, MaxLiveStarts)
    \/ \E k \in 1..MaxLiveStarts, ok \in BOOLEAN : ProbeExit(k, <<>>, ok)
    \/ \E id \in 1..MaxLiveStarts, code \in {"0", "1", "null"} : ProcExit(id, code)
    \/ \E id \in 1..MaxLiveStarts : SearchTimeout(id)
    \/ \E id \in 1..MaxLiveStarts : StopSearch(id)
    \/ \E id \in 1..MaxLiveStarts : GetResults(id, 0, 1)
    \/ Dispose

InitSpecDispose == InitSearch /\ IdlePath /\ IdleCmd /\ IdleTerm

SpecDispose == InitSpecDispose /\ [][NextDispose]_vars

\* The cleanup pass over sessions of every status and age: searches are
\* started one after the other, exit or are stopped, and minutes pass one at
\* a time or SESSION_TTL at once.
NextReap ==
    \/ \E o \in PlainOptions : StartSearchCached(o, <<>>, TRUE, MaxLiveStarts)
    \/ \E o \in PlainOptions : StartSearchProbe(o, MaxLiveStarts)
    \/ \E k \in 1..MaxLiveStarts : ProbeExit(k, <<>>, TRUE)
    \/ \E id \in 1..MaxLiveStarts, code \in {"0", "1"} : ProcExit(id, code)
    \/ \E id \in 1..MaxLiveStarts : StopSearch(id)
    \/ Cleanup
    \/ \E d \in {1, SESSION_TTL} : Tick(d)

InitSpecReap == InitSearch /\ IdlePath /\ IdleCmd /\ IdleTerm

SpecReap == InitSpecReap /\ [][NextReap]_vars

\* One search from its spawn on: its output in every cut into chunks, its
\* exit, its timeout, a stop, reads of its results and a dispose, in every
\* order.
NextStream ==
    \/ \E n \in 1..MaxStream : StdoutData(1, n)
    \/ \E code \in {"0", "1", "null"} : ProcExit(1, code)
    \/ SearchTimeout(1)
    \/ StopSearch(1)
    \/ \E offset \in 0..MaxOffset, length \in 1..MaxLength : GetResults(1, offset, length)
    \/ Dispose

InitSpecStream == InitStream /\ IdlePath /\ IdleCmd /\ IdleTerm

SpecStream == InitSpecStream /\ [][NextStream]_vars

\* One search without a result cap whose process writes newline-terminated
\* lines, one of them holding a two-byte character, in chunks of any size.
ChunkOptions == [searchType : {"files", "content"}, maxResults : {0}, timeout : {FALSE}]

ChunkOutputs ==
    { <<"a", LF, LF, LeadByte, ContByte, LF>>,
      <<"a", ":", "1", ":", LeadByte, ContByte, LF, "b", LF>>,
      <<"a", ":", "1", ":", "x", LF, "b", LF, "c", LF>> }

InitChunk ==
    /\ sessions = {1}
    /\ \E o \in ChunkOptions, out \in ChunkOutputs :
            sess = <<spawned(newSession(o), o, out)>>
    /\ nextId = 2
    /\ ripgrepAvailable = "true"
    /\ rgInstalled = TRUE
    /\ probing = <<>>
    /\ refused = FALSE
    /\ lastStart = NoStart
    /\ cleanupInterval = TRUE
    /\ page = NoPage

NextChunk ==
    \/ \E n \in 1..MaxStream : StdoutData(1, n)
    \/ \E code \in {"0", "1"} : ProcExit(1, code)

\* The registry filled to its cap with searches that are stopped rather than
\* left to finish; the first search has written one line.
OneLine == <<"a", LF>>

NextSlots ==
    \/ \E o \in PlainOptions : StartSearchCached(o, OneLine, TRUE, MaxCapStarts)
    \/ \E o \in PlainOptions : StartSearchProbe(o, MaxCapStarts)
    \/ \E k \in 1..MaxCapStarts : ProbeExit(k, OneLine, TRUE)
    \/ StdoutData(1, Len(OneLine))
    \/ \E id \in 1..MaxCapStarts : StopSearch(id)
    \/ GetResults(1, 0, 1)
    \/ Cleanup
    \/ Tick(SESSION_TTL + 1)
    \/ Dispose

InitSpecSlots == InitSearch /\ IdlePath /\ IdleCmd /\ IdleTerm

SpecSlots == InitSpecSlots /\ [][NextSlots]_vars

InitSpecChunk == InitChunk /\ IdlePath /\ IdleCmd /\ IdleTerm

SpecChunk == InitSpecChunk /\ [][NextChunk]_vars

\* terminate(pid) on sessions that are idle, running, exited or already
\* removed, with kills that go through or raise.
NextKill ==
    \/ Create(MaxRegPtys)
    \/ \E pid \in 1..MaxRegPtys : OnData(pid, <<"o", "k", "\n">>)
    \/ \E pid \in 1..MaxRegPtys : OnExit(pid)
    \/ \E pid \in 1..(MaxRegPtys + 1), killOk \in BOOLEAN : Terminate(pid, killOk)

InitSpecKill == InitTerm /\ IdlePath /\ IdleCmd /\ IdleSearch

SpecKill == InitSpecKill /\ [][NextKill]_vars

\* The life of the sessions of a REPL that prints a line or its prompt:
\* created, written to by an interact call that waits for the prompt, and
\* exiting in any state.
NextLife ==
    \/ Create(MaxPtys)
    \/ \E pid \in 1..MaxPtys, data \in {<<">", ">", ">", " ">>, <<"o", "k", "\n">>} :
            OnData(pid, data)
    \/ \E pid \in 1..MaxPtys : OnExit(pid)
    \/ \E pid \in 1..MaxPtys : Interact(pid, <<>>, PollInterval, TRUE)
    \/ Poll
    \/ Advance

InitSpecLife == InitTerm /\ IdlePath /\ IdleCmd /\ IdleSearch

SpecLife == InitSpecLife /\ [][NextLife]_vars

\* a registry right after create returned its first session
InitRead ==
    /\ ptySessions = {1}
    /\ pty = <<newPty>>
    /\ nextPid = 2
    /\ ptyCleanupInterval = TRUE
    /\ call = NoCall
    /\ ptyRet = NoRet
    /\ IdleTools

\* what the process of the session prints, one chunk per output event
ReadChunks == { <<"a">>, <<"b", "\n">> }

\* the number the next read call gets: calls are numbered as they begin
nextRead == Cardinality({r \in DOMAIN reads : reads[r].phase # "none"}) + 1

\* One session that only read_process_output is used on: its process
\* prints and exits, reads of it and of an unknown pid start and return in
\* every order, also while another read is waiting.
NextRead ==
    \/ \E data \in ReadChunks : OnData(1, data)
    \/ OnExit(1)
    \/ \E pid \in {1, 2} : ReadProcessOutput(nextRead, pid)
    \/ \E r \in 1..MaxReadCalls : ReadWake(r)

InitSpecRead == InitRead /\ IdlePath /\ IdleCmd /\ IdleSearch

SpecRead == InitSpecRead /\ [][NextRead]_vars

\* ---- inputs of start_process ----
StartCommands == { <<"r", "m">>, <<"m", " ", "r">>, <<"m">> }

StartShells == { <<>>, <<"r", "m">> }

StartDirs == { <<>>, ToPath(<<A>>), ToPath(<<O>>), ToPath(<<O, I>>) }

\* a server with a deny-list and an allow-list, before any tool call
InitStart ==
    /\ allowedDirectories \in {<<ToPath(<<A>>)>>, <<>>}
    /\ requestedPath = <<>>
    /\ pathResult = NoResult
    /\ blockedConfig \in {<<>>, <<<<"r", "m">>>>}
    /\ command = <<>>
    /\ cmdResult = NoResult
    /\ InitTerm

\* start_process with commands that are and are not on the deny-list,
\* working directories inside and outside the allow-list, with and without
\* the shell argument.
NextStart ==
    \/ \E cmd \in StartCommands, cwd \in StartDirs, shell \in StartShells, ok \in BOOLEAN :
            StartProcess(cmd, cwd, shell, ok, MaxPtys)
    \/ StartProcessWake
    \/ \E pid \in 1..MaxPtys : OnData(pid, <<"o", "k", "\n">>)

InitSpecStart == InitStart /\ IdleSearch

SpecStart == InitSpecStart /\ [][NextStart]_vars

\* findExistingParent on one path, one turn of its loop at a time.
NextParent == FindExistingParentStep

InitSpecParent ==
    /\ InitParent
    /\ IdlePath /\ IdleCmd /\ IdleSearch /\ IdlePty /\ IdleCalls
    /\ IdleEdit /\ IdleMulti /\ IdleUsage

SpecParent == InitSpecParent /\ [][NextParent]_vars

\* One edit_block call, the loop of countOccurrences one turn at a time.
NextEdit ==
    \/ EditBlock
    \/ CountStep

InitSpecEdit ==
    /\ InitEdit
    /\ IdleCmd /\ IdleSearch /\ IdlePty /\ IdleCalls
    /\ IdleParent /\ IdleMulti /\ IdleUsage

SpecEdit == InitSpecEdit /\ [][NextEdit]_vars

\* One read_multiple_files call, one path at a time.
NextMulti == \E f \in PathKinds : ReadNext(f)

InitSpecMulti ==
    /\ InitMulti
    /\ IdlePath /\ IdleCmd /\ IdleSearch /\ IdlePty /\ IdleCalls
    /\ IdleParent /\ IdleEdit /\ IdleUsage

SpecMulti == InitSpecMulti /\ [][NextMulti]_vars

\* Requests to a server whose registries are empty.
NextUsage == \E name \in ToolNames, pid \in {0, 1} : CallTool(name, pid)

InitSpecUsage ==
    /\ IdlePath /\ IdleCmd /\ IdleSearch /\ IdlePty /\ IdleCalls
    /\ IdleParent /\ IdleEdit /\ IdleMulti /\ IdleUsage

SpecUsage == InitSpecUsage /\ [][NextUsage]_vars

\* One terminal registry and one interact call at a time. The timers of the
\* call fire when due and time advances while the call waits.
NextTerm ==
    \/ Create(MaxPtys)
    \/ \E pid \in 1..MaxPtys, data \in Chunks : OnData(pid, data)
    \/ \E pid \in 1..MaxPtys : OnExit(pid)
    \/ \E pid \in 1..MaxPtys, killOk \in BOOLEAN : Terminate(pid, killOk)
    \/ \E failing \in SUBSET (1..MaxPtys) : CleanupStale(failing)
    \/ \E failing \in SUBSET (1..MaxPtys) : Shutdown(failing)
    \/ PtyTick(sessionTimeout)
    \/ \E pid \in 1..MaxPtys, input \in Inputs, timeout \in Timeouts, wait \in BOOLEAN :
            Interact(pid, input, timeout, wait)
    \/ Poll
    \/ Wake
    \/ Advance

InitSpecTerm == InitTerm /\ IdlePath /\ IdleCmd /\ IdleSearch

SpecTerm ==
    InitSpecTerm /\ [][NextTerm]_vars /\ WF_vars(Poll) /\ WF_vars(Wake) /\ WF_vars(Advance)

\* The terminal registry alone: sessions are created, write output, exit,
\* are terminated, reaped and shut down; no interact call runs.
NextReg ==
    \/ Create(MaxRegPtys)
    \/ \E pid \in 1..MaxRegPtys : OnData(pid, <<"o", "k", "\n">>)
    \/ \E pid \in 1..MaxRegPtys : OnExit(pid)
    \/ \E pid \in 1..(MaxRegPtys + 1), killOk \in BOOLEAN : Terminate(pid, killOk)
    \/ \E failing \in SUBSET (1..MaxRegPtys) : CleanupStale(failing)
    \/ \E failing \in SUBSET (1..MaxRegPtys) : Shutdown(failing)
    \/ ShutdownHandler
    \/ PtyTick(sessionTimeout)

InitSpecReg == InitTerm /\ IdlePath /\ IdleCmd /\ IdleSearch

SpecReg == InitSpecReg /\ [][NextReg]_vars

(***************************************************************************)
(* Claims about validatePath and validateCommand.                          *)
(***************************************************************************)
\* The real location of a path: '..' normalised, then every component
\* followed through symlinks; what does not exist yet keeps its name below
\* the real location of what does.
RECURSIVE Locate(_, _)
Locate(segs, cur) ==
    IF segs = <<>> THEN cur
    ELSE LET cand == Append(cur, Head(segs))
             key == ToPath(cand)
         IN  IF key \notin DOMAIN FS THEN cur \o segs
             ELSE IF FS[key].kind = "link"
                  THEN Locate(Tail(segs), Locate(SegsOf(FS[key].target), <<>>))
             ELSE IF FS[key].kind = "file" /\ Tail(segs) # <<>> THEN cur \o segs
             ELSE Locate(Tail(segs), cand)

RealLocation(p) == Locate(SegsOf(resolve(normalize(p))), <<>>)

RealRoots(dirs) == {RealLocation(d) : d \in Range(dirs)}

\* loc is the directory root or lies below it
Within(root, loc) == Len(root) <= Len(loc) /\ SubSeq(loc, 1, Len(root)) = root

PathCalled == pathResult # NoResult

\* C1: with a non-empty allow-list, a requested path whose real location lies
\* outside every allowed root is rejected by validatePath.
C1_OutsideRejected ==
    (/\ PathCalled
     /\ Len(allowedDirectories) > 0
     /\ \A root \in RealRoots(allowedDirectories) :
            ~Within(root, RealLocation(requestedPath)))
    => pathResult.valid = FALSE

\* C6: with a non-empty allow-list, a requested path whose real location is an
\* allowed root or below one is accepted, and resolvedPath is that location.
C6_InsideAccepted ==
    (/\ PathCalled
     /\ Len(allowedDirectories) > 0
     /\ \E root \in RealRoots(allowedDirectories) :
            Within(root, RealLocation(requestedPath)))
    => /\ pathResult.valid = TRUE
       /\ pathResult.resolvedPath = ToPath(RealLocation(requestedPath))

\* C29: with an empty allow-list validatePath accepts every requested path,
\* existing or not, and resolvedPath is its absolute form, with symlinks
\* resolved when the path exists.
C29_UnrestrictedAcceptsAll ==
    (PathCalled /\ allowedDirectories = <<>>)
    => /\ pathResult.valid = TRUE
       /\ pathResult.resolvedPath =
            IF existsSync(resolve(normalize(requestedPath)))
            THEN ToPath(RealLocation(requestedPath))
            ELSE resolve(normalize(requestedPath))

\* unrestricted mode accepted a relative path that leaves the working
\* directory through '..' and names something that does not exist
C29_AcceptedMissingOutside ==
    /\ PathCalled
    /\ allowedDirectories = <<>>
    /\ pathResult.valid
    /\ ~IsAbsolute(requestedPath)
    /\ ~existsSync(pathResult.resolvedPath)
    /\ ~StartsWith(pathResult.resolvedPath, Cwd)

CmdCalled == cmdResult # NoResult

\* c equals b up to letter case and surrounding whitespace
SameCommand(c, b) == toLowerCase(trim(c)) = toLowerCase(trim(b))

\* C5: a command that equals an entry of the configured blockedCommands list
\* up to letter case and surrounding whitespace is rejected, whatever the
\* letter case the entry is written in.
C5_BlockedAnyCase ==
    (/\ CmdCalled
     /\ \E b \in Range(blockedConfig) : SameCommand(command, b))
    => cmdResult.valid = FALSE

\* the segments of c: c in lower case, cut at '|', ';' and '&', every piece
\* trimmed
Segments(c) ==
    LET raw == Split(toLowerCase(c), {"|", ";", "&"})
    IN  {trim(raw[k]) : k \in 1..Len(raw)}

\* C28: validateCommand rejects c whenever a segment of c is a member of the
\* deny-list, and accepts c whenever neither the whole trimmed command (in
\* lower case) nor any segment is a member, also when c contains an entry
\* as a substring.
C28_SegmentRule ==
    CmdCalled =>
        /\ (\E seg \in Segments(command) : seg \in Range(blockedConfig))
            => cmdResult.valid = FALSE
        /\ (/\ toLowerCase(trim(command)) \notin Range(blockedConfig)
            /\ \A seg \in Segments(command) : seg \notin Range(blockedConfig))
            => cmdResult.valid = TRUE

\* a command that is accepted although a deny-list entry is a proper part
\* of one of its words
C28_AcceptedSuperstring ==
    /\ CmdCalled
    /\ cmdResult.valid
    /\ \E b \in Range(blockedConfig) :
            /\ b = <<"r", "m">>
            /\ Len(command) > Len(b)
            /\ Contains(command, b)
            /\ \A k \in 1..Len(command) : command[k] \in {"r", "m"}

(***************************************************************************)
(* Claims about the search registry.                                       *)
(***************************************************************************)
\* C2: the registry never holds more than MAX_SESSIONS sessions, however many
\* startSearch calls are in flight; a call that reaches the cap test while
\* MAX_SESSIONS sessions are registered is refused with the cap error, and a
\* refused call inserts nothing: the registry, the session objects and the
\* ids issued are as before the call.
C2_RegistryCap ==
    [][/\ Cardinality(sessions') <= MAX_SESSIONS
       /\ (/\ lastStart'.result \notin {"none", "unavailable"}
           /\ Cardinality(sessions) = MAX_SESSIONS) => lastStart'.result = "cap"
       /\ lastStart'.result = "cap" =>
              /\ lastStart'.size = MAX_SESSIONS
              /\ sessions' = sessions
              /\ sess' = sess
              /\ nextId' = nextId]_vars

\* a call has just been refused at a full registry
C2_Refused ==
    /\ lastStart.result = "cap"
    /\ Cardinality(sessions) = MAX_SESSIONS
    /\ nextId = MAX_SESSIONS + 1

\* C7: a startSearch call that completes while the registry is below the cap
\* succeeds and registers its session, also after earlier calls were refused
\* and a terminal session was reaped; and while the cleanup timer is set and
\* time advances, every registered session in a terminal state is eventually
\* removed from the registry.
C7_CapRecovers ==
    /\ [][(/\ lastStart'.result \notin {"none", "unavailable"}
           /\ Cardinality(sessions) < MAX_SESSIONS)
          => /\ lastStart'.result = "ok"
             /\ lastStart'.id \in sessions'
             /\ lastStart'.id \notin sessions]_vars
    /\ \A id \in 1..MaxCapStarts :
          (id \in sessions /\ sess[id].status \in Terminal /\ cleanupInterval)
              ~> (id \notin sessions)

\* a call was refused, a terminal session was reaped, and the next call got
\* the session after the first MAX_SESSIONS
C7_StartedAfterReap ==
    /\ refused
    /\ lastStart.result = "ok"
    /\ lastStart.id = MAX_SESSIONS + 1
    /\ \E id \in DOMAIN sess : id \notin sessions /\ sess[id].status \in Terminal

\* C3: the status of a search session that is completed, stopped or error
\* never changes again, in any interleaving of stop, timeout, max-results,
\* exit and spawn-error events.
C3_TerminalStays ==
    [][\A id \in DOMAIN sess :
          sess[id].status \in Terminal => sess'[id].status = sess[id].status]_vars

\* C10: getResults on a registered session whose status is running reports
\* hasMore = TRUE for every offset and length, also when the page holds every
\* result accumulated so far and when the page is empty.
C10_RunningHasMore ==
    (page.called /\ page.found /\ page.status = "running") => page.hasMore = TRUE

\* a running session has results, and the page returned all of them
C10_FullPageWhileRunning ==
    /\ page.called /\ page.found
    /\ page.status = "running"
    /\ page.total > 0
    /\ page.offset >= 0
    /\ Len(page.results) = page.total
    /\ page.hasMore = TRUE

\* the results of session id at the 0-based indices lo, ..., hi - 1
Window(id, lo, hi) == [k \in 1..(hi - lo) |-> sess[id].results[lo + k]]

RECURSIVE Pages(_, _, _)
Pages(s, from, length) ==
    LET r == getResults(s, from, length)
    IN  IF r.hasMore /\ from <= Len(s.results)
        THEN <<r>> \o Pages(s, from + length, length)
        ELSE <<r>>

\* C12: getResults with offset >= 0 and length >= 1 on a session holding M
\* results returns the results at the indices [min(offset, M),
\* min(offset + length, M)) in order and reports total = M; on a session in
\* a terminal state hasMore is TRUE exactly when offset + length < M, and the
\* pages at the offsets 0, L, 2L, ... read until hasMore is FALSE hold every
\* result exactly once and in order.
C12_ForwardWindow ==
    (page.called /\ page.found /\ page.offset >= 0) =>
        LET s == sess[page.id]
            M == Len(s.results)
            lo == IF page.offset < M THEN page.offset ELSE M
            hi == IF page.offset + page.length < M THEN page.offset + page.length ELSE M
            pages == Pages(s, 0, page.length)
        IN  /\ page.results = Window(page.id, lo, hi)
            /\ page.total = M
            /\ s.status \in Terminal =>
                   /\ page.hasMore = (hi < M)
                   /\ Concat([k \in 1..Len(pages) |-> pages[k].results]) = s.results
                   /\ \A k \in 1..Len(pages) : pages[k].hasMore = (k * page.length < M)

\* the second page of an ended session: it starts inside the results and
\* ends at the last one
C12_LastPage ==
    /\ page.called /\ page.found
    /\ page.status \in Terminal
    /\ page.offset = page.length
    /\ page.total = page.offset + 1
    /\ Len(page.results) = 1
    /\ page.hasMore = FALSE

\* C17: after dispose() the cleanup timer handle is cleared, the process of
\* every session that was registered and still running has been killed, no
\* session is registered (listSearches() is empty), and getResults on an id
\* that is not registered, so on every id issued before, fails as not found.
C17_DisposeClears ==
    [][/\ Dispose =>
              /\ cleanupInterval' = FALSE
              /\ \A id \in sessions :
                    sess[id].status = "running" => sess'[id].process \in {"killed", "exited"}
              /\ \A id \in DOMAIN sess : id \notin sessions'
       /\ (page'.called /\ page'.id \notin sessions') => ~page'.found]_vars

\* two running searches were disposed, and getResults on one of them was
\* answered as not found
C17_NotFoundAfterDispose ==
    /\ page.called /\ ~page.found
    /\ ~cleanupInterval
    /\ sessions = {}
    /\ Len(sess) = 2
    /\ \A id \in DOMAIN sess : sess[id].status = "running" /\ sess[id].process = "killed"

\* the complete lines the process output delivered in a step adds to what
\* the handler had buffered (s before the step, t after it)
Delivered(s, t) ==
    LET text == s.buffer \o SubSeq(s.out, 1, Len(s.out) - Len(t.out))
        lines == Split(text, {"\n"})
    IN  SubSeq(lines, 1, Len(lines) - 1)

\* among the lines, a non-blank one arrives when the results gathered so far
\* already number maxResults
BeyondCap(s, lines) ==
    \E j \in 1..Len(lines) :
        /\ ~isBlank(lines[j])
        /\ Len(s.results)
             + Cardinality({k \in 1..(j - 1) :
                               /\ ~isBlank(lines[k])
                               /\ parseLine(lines[k], s.searchType).parsed})
           >= s.maxResults

\* C19: when maxResults is supplied, the results of the session never number
\* more than maxResults, however the process output is cut into chunks; and
\* when a line beyond the cap arrives while the session is running, the
\* process is killed and the session becomes completed with endTime set.
C19_MaxResultsCap ==
    [][\A id \in DOMAIN sess' :
          sess'[id].maxResults # 0 =>
              /\ Len(sess'[id].results) <= sess'[id].maxResults
              /\ (/\ id \in DOMAIN sess
                  /\ sess[id].status = "running"
                  /\ Len(sess'[id].out) < Len(sess[id].out)
                  /\ BeyondCap(sess[id], Delivered(sess[id], sess'[id])))
                 => /\ sess'[id].status = "completed"
                    /\ sess'[id].endTime = "set"
                    /\ sess'[id].process # "alive"]_vars

\* a search was cut at its cap: killed and completed holding maxResults
\* results, with output left unread and no timeout callback run
C19_KilledAtCap ==
    \E id \in DOMAIN sess :
        /\ sess[id].maxResults # 0
        /\ Len(sess[id].results) = sess[id].maxResults
        /\ sess[id].status = "completed"
        /\ sess[id].process = "killed"
        /\ sess[id].timer # "fired"

\* C20: when the timeout callback runs while the session is running, the
\* process is killed and the session becomes completed with endTime set; when
\* it runs on a session in a terminal state, the status, the endTime and the
\* process are left as they were.
C20_TimeoutFinalizes ==
    [][\A id \in DOMAIN sess :
          (sess[id].timer = "pending" /\ sess'[id].timer = "fired") =>
              IF sess[id].status = "running"
              THEN /\ sess'[id].process # "alive"
                   /\ sess'[id].status = "completed"
                   /\ sess'[id].endTime = "set"
              ELSE /\ sess'[id].status = sess[id].status
                   /\ sess'[id].endTime = sess[id].endTime
                   /\ sess'[id].process = sess[id].process]_vars

\* the timeout callback ran on a search that had been stopped
C20_FiredAfterStop ==
    \E id \in DOMAIN sess :
        /\ sess[id].timer = "fired"
        /\ sess[id].status = "stopped"
        /\ sess[id].endTime = "set"

\* C21: when the process of a running search exits with code c, the status
\* becomes completed if c is 0 and error otherwise, the error message
\* records c in the error case and endTime is set; getResults then reports a
\* cleanly exited search as completed, with hasMore false on the page that
\* reaches the end of its results.
C21_ExitFinalizes ==
    [][/\ \A id \in DOMAIN sess :
            (/\ sess[id].status = "running"
             /\ sess[id].exitCode = "none"
             /\ sess'[id].exitCode # "none")
            => LET c == sess'[id].exitCode
               IN  /\ sess'[id].status = IF c = "0" THEN "completed" ELSE "error"
                   /\ c # "0" => sess'[id].error = "ripgrep exited with code " \o c
                   /\ c = "0" => sess'[id].error = sess[id].error
                   /\ sess'[id].endTime = "set"
       /\ (/\ page'.called
            /\ page'.found
            /\ sess'[page'.id].exitCode = "0"
            /\ sess'[page'.id].status = "completed")
           => /\ page'.status = "completed"
              /\ page'.offset + Len(page'.results) >= page'.total => ~page'.hasMore
      ]_vars

\* a search without cap or timeout exited with code 0 and its last page,
\* which is not its first, was read
C21_LastPageAfterCleanExit ==
    /\ page.called
    /\ page.found
    /\ sess[page.id].maxResults = 0
    /\ sess[page.id].timer = "none"
    /\ sess[page.id].exitCode = "0"
    /\ page.status = "completed"
    /\ page.offset > 0
    /\ page.results # <<>>
    /\ page.offset + Len(page.results) = page.total
    /\ ~page.hasMore

\* C22: a cleanup pass removes exactly the registered sessions that are in
\* a terminal state and older than SESSION_TTL (5 minutes): a running
\* session stays whatever its age, a terminal one of age at most SESSION_TTL
\* stays, and nothing is added.
C22_CleanupExact ==
    [][Cleanup =>
        /\ sessions' \subseteq sessions
        /\ \A id \in sessions :
                id \notin sessions' <=> /\ sess[id].status \in Terminal
                                        /\ sess[id].age > SESSION_TTL
      ]_vars

\* one session was removed while a running session older than SESSION_TTL
\* is still registered
C22_RunningOutlivesReap ==
    /\ \E id \in DOMAIN sess : id \notin sessions /\ sess[id].status \in Terminal
    /\ \E id \in sessions : sess[id].status = "running" /\ sess[id].age > SESSION_TTL

\* C23: over the lifetime of one manager the availability probe
\* ('rg --version') is spawned at most once: a probe is spawned only while
\* nothing is cached and no other probe is in flight, whatever the
\* interleaving of startSearch calls. (The answer is cached when the first
\* probe ends and no probe is spawned while an answer is cached, so every
\* probe ever spawned is in flight before the first one ends.)
C23_ProbeSpawnedOnce ==
    [][Len(probing') > Len(probing) =>
            /\ probing = <<>>
            /\ ripgrepAvailable = "null"
      ]_vars

\* C24: when the search process cannot be launched after the session was
\* registered (spawn raises, or the handle reports a spawn error instead of
\* an exit), the session has left running with status error, an error
\* message and endTime set, and no exception escapes.
C24_SpawnFailureRecorded ==
    \A id \in DOMAIN sess :
        /\ ~uncaughtException(sess[id])
        /\ sess[id].process \in {"none", "errored"}
            => /\ sess[id].status = "error"
               /\ sess[id].error # ""
               /\ sess[id].endTime = "set"

\* C34: once a search session is completed, stopped or in error its results
\* never change again: no stdout chunk delivered after a stop, a timeout,
\* the cap or the exit appends to them.
C34_ResultsFinalWhenTerminal ==
    [][\A id \in DOMAIN sess :
            sess[id].status \in Terminal => sess'[id].results = sess[id].results
      ]_vars

\* C38: the cap counts every registered session whatever its status: a
\* start that completes is accepted only below MAX_SESSIONS registered
\* sessions and is refused at MAX_SESSIONS; a session leaves the registry only
\* in a cleanup or a dispose; a stop keeps the session registered with its
\* results, and getResults on a registered session finds it and reports all
\* its results.
C38_TerminalHoldsSlot ==
    [][/\ lastStart'.result = "ok" => Cardinality(sessions) < MAX_SESSIONS
       /\ lastStart'.result = "cap" => Cardinality(sessions) >= MAX_SESSIONS
       /\ (\E id \in sessions : id \notin sessions') => Cleanup \/ Dispose
       /\ \A id \in sessions :
              sess[id].status = "running" /\ sess'[id].status = "stopped"
              => /\ id \in sessions'
                 /\ sess'[id].results = sess[id].results
       /\ \A id \in sessions :
              page'.called /\ page'.id = id /\ sess[id].status = "stopped"
              => /\ page'.found
                 /\ page'.status = "stopped"
                 /\ page'.total = Len(sess[id].results)
                 /\ page'.results = slice(sess[id].results, page'.offset,
                                          Min(page'.offset + page'.length, page'.total))
      ]_vars

\* a start has just been refused at a registry that holds stopped sessions
\* only, the first of them with a result
C38_RefusedByStopped ==
    /\ lastStart.result = "cap"
    /\ \A id \in sessions : sess[id].status = "stopped"
    /\ 1 \in sessions
    /\ sess[1].results # <<>>

\* the results a session ends with when everything its process has yet to
\* write arrives as one chunk
AtOnce(s) ==
    LET text == s.buffer \o toString(s.out)
        lines == Split(text, {"\n"})
    IN  processLines(SubSeq(lines, 1, Len(lines) - 1),
                     [results |-> s.results, resultCount |-> s.resultCount,
                      capped |-> FALSE],
                     s.maxResults, s.searchType).results

\* C37: without maxResults the final results do not depend on how the
\* stream of newline-terminated lines is split into chunks: whatever part of
\* it a chunk delivers, the session ends with the results it would have had
\* if the rest had arrived at once, each line parsed once and as a whole.
C37_ChunkingIndependent ==
    [][\A id \in DOMAIN sess :
            sess[id].maxResults = 0 /\ sess'[id].out # sess[id].out
            => AtOnce(sess'[id]) = AtOnce(sess[id])
      ]_vars

(***************************************************************************)
(* Claims about terminal sessions and interact_with_process.               *)
(***************************************************************************)
\* the edges the state of a terminal session may take
Edge(s, t) ==
    \/ s = t
    \/ t = "terminated"
    \/ s \in {"idle", "waiting"} /\ t = "running"
    \/ s = "running" /\ t = "waiting"

\* C4: the state of a terminal session changes only from idle or waiting to
\* running, from running to waiting, and from any state to terminated; a
\* session that is terminated is never set back to running or waiting by an
\* output callback or by the poll of an interaction.
C4_StateEdges ==
    [][\A pid \in DOMAIN pty : Edge(pty[pid].state, pty'[pid].state)]_vars

\* the signals the polling callback would see now
Signal ==
    LET d == detectPromptOrCompletion(Concat(pty[call.pid].outputBuffer))
    IN  d.hasPrompt \/ d.hasError \/ d.isComplete

\* C8: an interact_with_process call on a registered session that is not
\* terminated returns. With waitForPrompt the wait goes on past a 100 ms tick
\* only when no prompt, error or completion signal is present and the elapsed
\* time does not exceed the timeout, so it never lasts longer than the timeout
\* plus one polling interval, also when the process stays silent, exits, or
\* the session is terminated or reaped meanwhile.
C8_InteractReturns ==
    /\ [][/\ (call.phase = "polling" /\ call'.phase = "polling" /\ call'.polls # call.polls)
              => (~Signal /\ call.elapsed <= call.timeout)
          /\ (call'.outcome = "sent" /\ call'.waitForPrompt)
              => call'.elapsed <= call'.timeout + PollInterval]_vars
    /\ (call.phase \in {"polling", "sleeping"}) ~> (call.phase = "returned")

\* a polling call on a silent process returned at the last instant allowed,
\* after its session had been removed from the registry
C8_ReturnedAtBound ==
    /\ call.phase = "returned"
    /\ call.outcome = "sent"
    /\ call.waitForPrompt
    /\ call.output = <<>>
    /\ call.elapsed = call.timeout + PollInterval
    /\ call.pid \notin ptySessions

\* C9: sending input to a registered session that is not terminated clears
\* the output buffer, writes exactly the caller's input followed by one
\* newline character and sets the state to running, before the first poll.
C9_SendsInputNewline ==
    [][(call'.outcome = "sent" /\ call.phase \in {"none", "returned"})
          => /\ pty'[call'.pid].outputBuffer = <<>>
             /\ call'.written = call'.input \o <<"\n">>
             /\ pty'[call'.pid].state = "running"
             /\ call'.polls = 0]_vars

\* C13: cleanupStale removes (kills and unregisters) every session whose idle
\* time is strictly greater than the session timeout and every session whose
\* state is terminated whatever its idle time, and leaves every other session
\* untouched: still registered, same state, same buffer, process not killed.
C13_ReapsStale ==
    [][ptyRet'.op = "cleanupStale" =>
          \A pid \in ptySessions :
              IF pty[pid].idle > sessionTimeout \/ pty[pid].state = "terminated"
              THEN /\ pid \notin ptySessions'
                   /\ pty'[pid].state = "terminated"
                   /\ pty'[pid].process # "alive"
              ELSE /\ pid \in ptySessions'
                   /\ pty'[pid] = pty[pid]]_vars

\* C14: terminate(pid) returns true exactly when pid is registered and the
\* kill of its process succeeds, and then the session is marked terminated,
\* its process is no longer alive and pid is no longer registered; for an
\* unknown pid it returns false and leaves the registry and every session as
\* they were; when the kill raises it returns false and raises nothing.
C14_TerminateResult ==
    [][ptyRet'.op = "terminate" =>
          LET pid == ptyRet'.pid IN
          /\ ptyRet'.value = (pid \in ptySessions /\ ~ptyRet'.killRaised)
          /\ ptyRet'.value =>
                 /\ pty'[pid].state = "terminated"
                 /\ pty'[pid].process # "alive"
                 /\ ptySessions' = ptySessions \ {pid}
          /\ pid \notin ptySessions =>
                 /\ ptyRet'.value = FALSE
                 /\ ptySessions' = ptySessions
                 /\ pty' = pty
          /\ ptyRet'.killRaised => (ptyRet'.value = FALSE /\ ~ptyRet'.raised)]_vars

\* terminate returned true for a live session while another stays registered
C14_TerminatedOneOfTwo ==
    /\ ptyRet.op = "terminate"
    /\ ptyRet.value = TRUE
    /\ ptyRet.pid \notin ptySessions
    /\ pty[ptyRet.pid].process = "killed"
    /\ ptySessions # {}

\* C15: the number cleanupStale returns is the number of sessions the call
\* removed from the registry, the size before minus the size after, also
\* when the kill of a stale session's process raises.
C15_CountsRemoved ==
    [][ptyRet'.op = "cleanupStale" =>
          ptyRet'.cleaned = Cardinality(ptySessions) - Cardinality(ptySessions')]_vars

\* C16: after the terminal registry is disposed, by shutdown() or by the
\* shutdown handler of main, every session that was registered has its
\* process killed, no session is registered (listAll() is empty, get(pid) is
\* undefined for every pid) and the cleanup interval is cleared.
C16_DisposeKillsAll ==
    [][ptyRet'.op \in {"shutdown", "dispose"} =>
          /\ \A pid \in ptySessions : pty'[pid].process # "alive"
          /\ ptySessions' = {}
          /\ ptyCleanupInterval' = FALSE]_vars

\* a disposal of the terminal registry: shutdown() or the handler of main
Disposal(r) == r.op \in {"shutdown", "dispose"}

\* C18: for both registries disposal raises nothing, a second dispose leaves
\* the registry as the first left it, empty and with its timer stopped, and
\* the callbacks and operations that run after a dispose (output, exit,
\* timeout, terminate) raise nothing.
C18_DisposeIdempotent ==
    [][/\ ~ptyRet'.raised
       /\ (Disposal(ptyRet) /\ Disposal(ptyRet')) =>
              /\ ptySessions' = {} /\ ptySessions' = ptySessions
              /\ pty' = pty
              /\ ptyCleanupInterval' = FALSE
       /\ (Dispose /\ ~cleanupInterval) =>
              /\ sessions' = {}
              /\ cleanupInterval' = FALSE
              /\ sessions = {} => sess' = sess]_vars

\* a step of the terminal registry itself: one of its callbacks or methods
RegistryStep ==
    \/ \E pid \in DOMAIN pty, data \in Chunks : OnData(pid, data)
    \/ \E pid \in DOMAIN pty : OnExit(pid)
    \/ \E pid \in DOMAIN pty, killOk \in BOOLEAN : Terminate(pid, killOk)
    \/ \E failing \in SUBSET DOMAIN pty : CleanupStale(failing)
    \/ \E failing \in SUBSET DOMAIN pty : Shutdown(failing)

\* C25: the output buffer and the state of a session change only in steps of
\* the registry (the output and exit callbacks, terminate, cleanupStale and
\* the shutdown): no step of a tool handler assigns them.
C25_OnlyRegistryMutates ==
    [][(\E pid \in DOMAIN pty :
            \/ pty'[pid].outputBuffer # pty[pid].outputBuffer
            \/ pty'[pid].state # pty[pid].state)
       => RegistryStep]_vars

\* C27: a session create returns is registered under its pid with state
\* idle and an empty buffer; every output event appends its chunk to the
\* buffer, resets the idle time (lastActivity) and leaves the state running;
\* the exit of the process sets the state to terminated whatever it was.
C27_SessionLifecycle ==
    [][/\ \A pid \in DOMAIN pty' \ DOMAIN pty :
            /\ pid \in ptySessions'
            /\ pty'[pid].state = "idle"
            /\ pty'[pid].outputBuffer = <<>>
       /\ \A pid \in DOMAIN pty :
            Len(pty'[pid].outputBuffer) > Len(pty[pid].outputBuffer)
            => /\ \E data \in Chunks :
                    pty'[pid].outputBuffer = Append(pty[pid].outputBuffer, data)
               /\ pty'[pid].idle = 0
               /\ pty'[pid].state = "running"
       /\ \A pid \in DOMAIN pty :
            (pty[pid].process # "exited" /\ pty'[pid].process = "exited")
            => pty'[pid].state = "terminated"
      ]_vars

\* an interact call found the session waiting for input, and the process
\* exited with nothing written since
C27_ExitedWhileWaiting ==
    /\ call.phase = "returned"
    /\ call.status = "ready (waiting for input)"
    /\ call.pid \in DOMAIN pty
    /\ Concat(pty[call.pid].outputBuffer) = call.output
    /\ pty[call.pid].process = "exited"
    /\ pty[call.pid].state = "terminated"

\* everything the reads of pid returned so far, in the order they returned
RECURSIVE ReturnedOf(_, _)
ReturnedOf(log, pid) ==
    IF log = <<>> THEN <<>>
    ELSE (IF Head(log).pid = pid THEN Head(log).output ELSE <<>>)
         \o ReturnedOf(Tail(log), pid)

\* the output of the session so far, as its readers see it: what was
\* returned, followed by what is buffered
Stream(pid) == ReturnedOf(readOut, pid) \o Concat(pty[pid].outputBuffer)

\* C26: on a session that only read_process_output is used on, a read
\* returns the concatenation, in arrival order, of the chunks buffered since
\* the last drain ('[No new output]' when there is none) and leaves the
\* buffer empty; what was returned followed by what is buffered only ever
\* grows by the arriving chunk at its end, so every chunk is returned once
\* and in arrival order, also when reads overlap.
C26_ReadsDrainInOrder ==
    [][\A pid \in DOMAIN pty :
        /\ \A r \in DOMAIN reads :
                (reads[r].phase = "waiting" /\ reads'[r].phase = "returned"
                    /\ reads[r].pid = pid)
                => /\ reads'[r].output = Concat(pty[pid].outputBuffer)
                   /\ reads'[r].text = IF pty[pid].outputBuffer = <<>> THEN NoNewOutput
                                       ELSE reads'[r].output
                   /\ pty'[pid].outputBuffer = <<>>
        /\ \/ Stream(pid)' = Stream(pid)
           \/ \E data \in ReadChunks :
                /\ pty'[pid].outputBuffer = Append(pty[pid].outputBuffer, data)
                /\ Stream(pid)' = Stream(pid) \o data
      ]_vars

\* two reads of the session overlapped and each returned output
C26_OverlappingReadsReturned ==
    \E r, q \in DOMAIN reads :
        /\ r # q
        /\ reads[r].phase = "returned" /\ reads[q].phase = "returned"
        /\ reads[r].found /\ reads[q].found
        /\ reads[q].overlaps
        /\ reads[r].output # <<>>
        /\ reads[q].output # <<>>
        /\ reads[r].output # reads[q].output

\* C30: start_process spawns only after validateCommand accepted the
\* command and validatePath the working directory; when either check fails
\* nothing is created; and the program spawned is the one the validated
\* command names (its first word), also when a shell argument is given.
C30_SpawnsValidatedProgram ==
    [][LET cmdOk == validateCommand(started'.command, blockedConfig).valid
           cwdOk == validatePath(cwdOf(started'.cwd), allowedDirectories).valid
       IN  /\ DOMAIN pty' # DOMAIN pty
                => /\ cmdOk
                   /\ cwdOk
                   /\ started'.file = Head(Split(started'.command, {" "}))
           /\ (started' # started /\ ~(cmdOk /\ cwdOk))
                => /\ pty' = pty
                   /\ ptySessions' = ptySessions
      ]_vars

\* C35: a registered terminal session whose state is terminated has a
\* process that has exited or was killed, never one that is still alive.
C35_TerminatedIsDead ==
    \A pid \in ptySessions :
        pty[pid].state = "terminated" => pty[pid].process \in {"exited", "killed"}

\* C36: the buffer-clear hazard. A chunk that arrives after an interaction on
\* a session has returned was read by no caller; the next interaction that
\* sends input to the same session empties the buffer before it writes, so
\* the chunk is discarded and the later call starts from an empty output.
C36_ClearDiscardsUnread ==
    [][\A pid \in ptySessions :
            /\ call.phase = "returned" /\ call.outcome = "sent" /\ call.pid = pid
            /\ call'.phase \in {"polling", "sleeping"} /\ call'.pid = pid
            => /\ pty'[pid].outputBuffer = <<>>
               /\ call'.output = <<>>
      ]_vars

\* an interaction has returned, a further chunk has since arrived in the
\* buffer of its session, and the session still accepts input
C36_UnreadChunkBeforeClear ==
    /\ call.phase = "returned" /\ call.outcome = "sent"
    /\ call.pid \in ptySessions
    /\ pty[call.pid].state # "terminated"
    /\ \E tail \in {SubSeq(Concat(pty[call.pid].outputBuffer), Len(call.output) + 1,
                           Len(Concat(pty[call.pid].outputBuffer)))} :
           /\ tail # <<>>
           /\ Concat(pty[call.pid].outputBuffer) = call.output \o tail

(***************************************************************************)
(* Claims about the file tools and the call handler.                       *)
(***************************************************************************)
\* the path and its ancestors, nearest first, up to "/" or "."
RECURSIVE AncestorsOrSelf(_)
AncestorsOrSelf(p) ==
    IF dirname(p) = p THEN <<p>> ELSE <<p>> \o AncestorsOrSelf(dirname(p))

\* the nearest of them that exists, null when none does
NearestExisting(p) ==
    LET chain == AncestorsOrSelf(p)
        hits == {k \in 1..Len(chain) : existsSyncFromCwd(chain[k])}
    IN  IF hits = {} THEN NoFound
        ELSE Found(chain[CHOOSE k \in hits : \A h \in hits : k <= h])

\* C39: what findExistingParent returns is the nearest existing path among
\* the path itself and its ancestors, and null only when none of them
\* exists.
C39_NearestExisting ==
    parent.returned /\ parent # NoParent => parent.result = NearestExisting(parent.path)

\* every turn of the loop of findExistingParent that does not return moves
\* to a path with fewer ancestors, so the loop ends
FindExistingParentAdvances ==
    [][~parent'.returned =>
          Len(AncestorsOrSelf(parent'.current)) < Len(AncestorsOrSelf(parent.current))
      ]_vars

\* C40: edit_block returns for every input its schema accepts, the empty
\* oldString included: every turn of the loop of countOccurrences moves pos
\* forward in the content, so the loop ends after finitely many turns. (The
\* loop reads nothing but content, oldString and pos: a turn that leaves pos
\* where it was is followed by the same turn for ever.)
C40_CountingAdvances ==
    [][edit.phase = "counting" /\ edit'.phase = "counting" => edit'.pos > edit.pos]_vars

\* the places where oldString occurs in a text, counted from 0
OccurrencesIn(text, oldString) ==
    {k \in 0..(Len(text) - Len(oldString)) :
        SubSeq(text, k + 1, k + Len(oldString)) = oldString}

\* a text with every occurrence of oldString, taken from left to right,
\* replaced by newString
RECURSIVE ReplacedEvery(_, _, _)
ReplacedEvery(text, oldString, newString) ==
    IF Len(text) < Len(oldString) \/ oldString = <<>> THEN text
    ELSE IF SubSeq(text, 1, Len(oldString)) = oldString
         THEN newString
              \o ReplacedEvery(SubSeq(text, Len(oldString) + 1, Len(text)), oldString, newString)
    ELSE <<Head(text)>> \o ReplacedEvery(Tail(text), oldString, newString)

\* C33: when edit_block has returned, every file is as it was before and
\* the result is an error unless the path was accepted and oldString occurs
\* in the file exactly once, or at least once with replaceAll; in that case
\* only the named file changed, and with replaceAll every occurrence is
\* replaced.
C33_EditOnlyOnUniqueMatch ==
    edit.phase = "returned" =>
        LET validation == validatePath(edit.path, allowedDirectories)
            occurrences == Cardinality(OccurrencesIn(edit.before, edit.oldString))
            declined == \/ ~validation.valid
                        \/ validation.resolvedPath \notin EditFiles
                        \/ occurrences = 0
                        \/ occurrences > 1 /\ ~edit.replaceAll
        IN  IF declined
            THEN /\ edit.text = "Error"
                 /\ \A f \in EditFiles : disk[f] = edit.before
            ELSE /\ edit.text = "Successfully edited"
                 /\ \A f \in EditFiles \ {validation.resolvedPath} : disk[f] = edit.before
                 /\ edit.replaceAll =>
                        disk[validation.resolvedPath]
                            = ReplacedEvery(edit.before, edit.oldString, edit.newString)

\* what the turns before turn k added to totalBytesRead
RECURSIVE BytesBefore(_, _)
BytesBefore(results, k) ==
    IF k <= 1 THEN 0 ELSE results[k - 1].bytes + BytesBefore(results, k - 1)

\* C32: within one read_multiple_files call the bytes read in total never
\* exceed MAX_TOTAL_SIZE, files above MAX_FILE_SIZE with their preview
\* included, and every path that comes after the total limit was reached is
\* reported as not read.
C32_TotalWithinLimit ==
    /\ multi.totalBytesRead <= MAX_TOTAL_SIZE
    /\ \A k \in 1..Len(multi.results) :
           BytesBefore(multi.results, k) >= MAX_TOTAL_SIZE
           => ~multi.results[k].success /\ multi.results[k].bytes = 0

\* C31: a call whose outcome is an error, thrown or returned as an
\* 'Error: ...' result, leaves every counter as it was, and a call that
\* succeeds adds one to the counter of its tool.
C31_CountsSuccessOnly ==
    [][response' # response \/ callCounts' # callCounts =>
          IF response'.text = "Error"
          THEN callCounts' = callCounts
          ELSE callCounts' = incrementToolCall(callCounts, response'.name)
      ]_vars
====
